---- MODULE Spec2Model ----
(***************************************************************************)
(* The SSH transport packet layer of libssh (src/packet.c, src/gzip.c):    *)
(* the incoming framer ssh_packet_socket_callback, the state filter        *)
(* ssh_packet_incoming_filter, the dispatcher ssh_packet_process and the   *)
(* outgoing framer packet_send2, as a state machine over one session.      *)
(***************************************************************************)
EXTENDS Integers, Sequences, FiniteSets, TLC

(***************************************************************************)
(* Bounds of the model.                                                    *)
(***************************************************************************)
\* top-level feeds are started only while fewer than MaxRecv packets were counted
\* (or the session is in state ERROR, where none is counted)
MaxRecv == 1
\* application and handler sends are started only while send_seq < MaxSend
MaxSend == 2
\* ssh_packet_set_callbacks is called only while fewer than MaxTables tables are registered
MaxTables == 2

(***************************************************************************)
(* Program constants.                                                      *)
(***************************************************************************)
MAX_PACKET_LEN == 35000
SSH2_MSG_DISCONNECT == 1
SSH2_MSG_IGNORE == 2
SSH2_MSG_UNIMPLEMENTED == 3
SSH2_MSG_DEBUG == 4
SSH2_MSG_SERVICE_REQUEST == 5
SSH2_MSG_SERVICE_ACCEPT == 6
SSH2_MSG_EXT_INFO == 7
SSH2_MSG_KEXINIT == 20
SSH2_MSG_NEWKEYS == 21
SSH2_MSG_KEXDH_INIT == 30
SSH2_MSG_KEXDH_REPLY == 31
SSH2_MSG_KEX_DH_GEX_INIT == 32
SSH2_MSG_KEX_DH_GEX_REPLY == 33
SSH2_MSG_KEX_DH_GEX_REQUEST == 34
SSH2_MSG_USERAUTH_REQUEST == 50
SSH2_MSG_USERAUTH_FAILURE == 51
SSH2_MSG_USERAUTH_SUCCESS == 52
SSH2_MSG_USERAUTH_BANNER == 53
SSH2_MSG_USERAUTH_PK_OK == 60
SSH2_MSG_USERAUTH_INFO_RESPONSE == 61
SSH2_MSG_USERAUTH_GSSAPI_EXCHANGE_COMPLETE == 63
SSH2_MSG_USERAUTH_GSSAPI_ERROR == 64
SSH2_MSG_USERAUTH_GSSAPI_ERRTOK == 65
SSH2_MSG_USERAUTH_GSSAPI_MIC == 66
SSH2_MSG_GLOBAL_REQUEST == 80
SSH2_MSG_REQUEST_SUCCESS == 81
SSH2_MSG_REQUEST_FAILURE == 82
SSH2_MSG_CHANNEL_OPEN == 90
SSH2_MSG_CHANNEL_OPEN_CONFIRMATION == 91
SSH2_MSG_CHANNEL_OPEN_FAILURE == 92
SSH2_MSG_CHANNEL_WINDOW_ADJUST == 93
SSH2_MSG_CHANNEL_DATA == 94
SSH2_MSG_CHANNEL_EXTENDED_DATA == 95
SSH2_MSG_CHANNEL_EOF == 96
SSH2_MSG_CHANNEL_CLOSE == 97
SSH2_MSG_CHANNEL_REQUEST == 98
SSH2_MSG_CHANNEL_SUCCESS == 99
SSH2_MSG_CHANNEL_FAILURE == 100

\* the build options that select entries of default_packet_handlers
WITH_SERVER == TRUE
WITH_GSSAPI == TRUE

SessionStates == {"INITIAL_KEX", "KEXINIT_RECEIVED", "DH", "AUTHENTICATING",
                  "AUTHENTICATED", "ERROR"}
DhStates == {"DH_STATE_INIT", "DH_STATE_INIT_SENT", "DH_STATE_NEWKEYS_SENT",
             "DH_STATE_FINISHED"}
AuthStates == {"NONE", "AUTH_NONE_SENT", "PUBKEY_OFFER_SENT", "PUBKEY_AUTH_SENT",
               "PASSWORD_AUTH_SENT", "KBDINT_SENT", "INFO", "PK_OK",
               "GSSAPI_REQUEST_SENT", "GSSAPI_TOKEN", "GSSAPI_MIC_SENT",
               "SUCCESS", "FAILED", "PARTIAL", "ERROR"}
AuthServiceStates == {"SSH_AUTH_SERVICE_NONE", "SSH_AUTH_SERVICE_SENT",
                      "SSH_AUTH_SERVICE_ACCEPTED"}
ChannelReqStates == {"NONE", "PENDING", "ACCEPTED", "DENIED", "ERROR"}
PacketStates == {"INIT", "SIZEREAD", "PROCESSING"}

(***************************************************************************)
(* 32-bit unsigned words (uint32_t, unsigned int) as <<high, low>> halves  *)
(* of 16 bits, so that wrap-around is computed as the machine computes it. *)
(***************************************************************************)
Half == 256 * 256

\* the word of a natural number below 2^31
W(n) == <<n \div Half, n % Half>>

\* a + b modulo 2^32
WAdd(a, b) ==
    LET lo == a[2] + b[2]
        hi == a[1] + b[1] + (lo \div Half)
    IN  <<hi % Half, lo % Half>>

\* a - b modulo 2^32
WSub(a, b) ==
    LET lo == a[2] - b[2]
        hi == a[1] - b[1] + (lo \div Half)
    IN  <<hi % Half, lo % Half>>

\* a > b, unsigned
WGt(a, b) == a[1] > b[1] \/ (a[1] = b[1] /\ a[2] > b[2])

\* the conversion of a word to int (two's complement)
WInt(a) == IF a[1] >= 32768 THEN (a[1] - Half) * Half + a[2] ELSE a[1] * Half + a[2]

\* ntohl: the word held big-endian in the first four bytes of b
ntohl(b) == <<b[1] * 256 + b[2], b[3] * 256 + b[4]>>

\* htonl: the four big-endian bytes of a word ("d" of ssh_buffer_pack)
htonl(w) == <<w[1] \div 256, w[1] % 256, w[2] \div 256, w[2] % 256>>

Take(q, n) == SubSeq(q, 1, n)
Drop(q, n) == SubSeq(q, n + 1, Len(q))

Zeros(n) == [i \in 1 .. n |-> 0]

(***************************************************************************)
(* ssh_packet_incoming_filter: is the received packet allowed in the       *)
(* current session state?                                                  *)
(***************************************************************************)
allow(c) == IF c THEN "ALLOWED" ELSE "DENIED"

\* case SSH2_MSG_USERAUTH_SUCCESS with the check of auth.state left out
filter_userauth_success_any_auth(s) ==
    allow(~s.server
          /\ s.dh_handshake_state = "DH_STATE_FINISHED"
          /\ s.session_state = "AUTHENTICATING")

\* case SSH2_MSG_USERAUTH_SUCCESS
filter_userauth_success(s) ==
    allow(~s.server
          /\ s.dh_handshake_state = "DH_STATE_FINISHED"
          /\ s.session_state = "AUTHENTICATING"
          /\ s.auth_state \in {"KBDINT_SENT", "PUBKEY_AUTH_SENT",
                               "PASSWORD_AUTH_SENT", "GSSAPI_MIC_SENT",
                               "AUTH_NONE_SENT"})

\* case SSH2_MSG_GLOBAL_REQUEST
filter_global_request(s) == allow(s.session_state = "AUTHENTICATED")

\* cases SSH2_MSG_REQUEST_SUCCESS, SSH2_MSG_REQUEST_FAILURE with the check of
\* global_req_state left out
filter_request_reply_any_req(s) == allow(s.session_state = "AUTHENTICATED")

\* cases SSH2_MSG_REQUEST_SUCCESS, SSH2_MSG_REQUEST_FAILURE
filter_request_reply(s) ==
    allow(s.session_state = "AUTHENTICATED" /\ s.global_req_state = "PENDING")

\* cases SSH2_MSG_CHANNEL_OPEN .. SSH2_MSG_CHANNEL_FAILURE with the request
\* state of the channel consulted too
filter_channel_if_request_pending(s) ==
    allow(s.session_state = "AUTHENTICATED" /\ s.channel_request_state = "PENDING")

\* cases SSH2_MSG_CHANNEL_OPEN .. SSH2_MSG_CHANNEL_FAILURE
filter_channel(s) == allow(s.session_state = "AUTHENTICATED")

\* case SSH2_MSG_KEXINIT with session_state AUTHENTICATING accepted too
filter_kexinit_while_authenticating(s) ==
    allow(s.session_state \in {"AUTHENTICATED", "INITIAL_KEX", "AUTHENTICATING"}
          /\ s.dh_handshake_state \in {"DH_STATE_INIT", "DH_STATE_FINISHED"})

\* case SSH2_MSG_KEXINIT
filter_kexinit(s) ==
    allow(s.session_state \in {"AUTHENTICATED", "INITIAL_KEX"}
          /\ s.dh_handshake_state \in {"DH_STATE_INIT", "DH_STATE_FINISHED"})

\* case SSH2_MSG_NEWKEYS
filter_newkeys(s) ==
    allow(s.session_state = "DH" /\ s.dh_handshake_state = "DH_STATE_NEWKEYS_SENT")

\* case SSH2_MSG_KEXDH_INIT: the role is not looked at
filter_kexdh_init(s) ==
    allow(s.session_state = "DH" /\ s.dh_handshake_state = "DH_STATE_INIT")

\* case SSH2_MSG_KEXDH_REPLY
filter_kexdh_reply(s) ==
    allow(s.session_state = "DH" /\ s.dh_handshake_state = "DH_STATE_INIT_SENT")

\* case SSH2_MSG_SERVICE_REQUEST
filter_service_request(s) ==
    allow(~s.client
          /\ s.session_state \in {"AUTHENTICATING", "AUTHENTICATED"}
          /\ s.dh_handshake_state = "DH_STATE_FINISHED")

\* case SSH2_MSG_SERVICE_ACCEPT with the check of auth_service_state left out
filter_service_accept_any_service(s) ==
    allow(s.session_state \in {"AUTHENTICATING", "AUTHENTICATED"}
          /\ s.dh_handshake_state = "DH_STATE_FINISHED")

\* case SSH2_MSG_SERVICE_ACCEPT
filter_service_accept(s) ==
    allow(s.session_state \in {"AUTHENTICATING", "AUTHENTICATED"}
          /\ s.dh_handshake_state = "DH_STATE_FINISHED"
          /\ s.auth_service_state = "SSH_AUTH_SERVICE_SENT")

\* case SSH2_MSG_EXT_INFO
filter_ext_info(s) ==
    allow(s.session_state = "AUTHENTICATING"
          /\ s.dh_handshake_state = "DH_STATE_FINISHED")

\* cases SSH2_MSG_USERAUTH_REQUEST and SSH2_MSG_USERAUTH_GSSAPI_MIC
filter_userauth_server(s) ==
    allow(~s.client
          /\ s.dh_handshake_state = "DH_STATE_FINISHED"
          /\ s.session_state = "AUTHENTICATING")

\* case SSH2_MSG_USERAUTH_FAILURE with the check of the role left out
filter_userauth_failure_any_role(s) ==
    allow(s.dh_handshake_state = "DH_STATE_FINISHED"
          /\ s.session_state = "AUTHENTICATING")

\* case SSH2_MSG_USERAUTH_FAILURE
filter_userauth_failure(s) ==
    allow(~s.server
          /\ s.dh_handshake_state = "DH_STATE_FINISHED"
          /\ s.session_state = "AUTHENTICATING")

\* case SSH2_MSG_USERAUTH_BANNER
filter_userauth_banner(s) == allow(s.session_state = "AUTHENTICATING")

\* case SSH2_MSG_USERAUTH_PK_OK
filter_userauth_pk_ok(s) ==
    allow(s.session_state = "AUTHENTICATING"
          /\ s.auth_state \in {"KBDINT_SENT", "PUBKEY_OFFER_SENT",
                               "GSSAPI_REQUEST_SENT"})

\* case SSH2_MSG_USERAUTH_INFO_RESPONSE
filter_userauth_info_response(s) ==
    allow(s.session_state = "AUTHENTICATING"
          /\ s.auth_state \in {"INFO", "GSSAPI_TOKEN"})

\* default: with the packet refused instead of left to the reply UNIMPLEMENTED
filter_default_denied(s) == "DENIED"

\* default: unknown message, do not filter
filter_default(s) == "UNKNOWN"

ssh_packet_incoming_filter(s) ==
    LET type == s.in_packet.type
    IN  CASE type \in {SSH2_MSG_DISCONNECT, SSH2_MSG_IGNORE,
                       SSH2_MSG_UNIMPLEMENTED, SSH2_MSG_DEBUG} -> "ALLOWED"
          [] type = SSH2_MSG_SERVICE_REQUEST -> filter_service_request(s)
          [] type = SSH2_MSG_SERVICE_ACCEPT -> filter_service_accept(s)
          [] type = SSH2_MSG_EXT_INFO -> filter_ext_info(s)
          [] type = SSH2_MSG_KEXINIT -> filter_kexinit(s)
          [] type = SSH2_MSG_NEWKEYS -> filter_newkeys(s)
          [] type = SSH2_MSG_KEXDH_INIT -> filter_kexdh_init(s)
          [] type = SSH2_MSG_KEXDH_REPLY -> filter_kexdh_reply(s)
          [] type \in {SSH2_MSG_KEX_DH_GEX_INIT, SSH2_MSG_KEX_DH_GEX_REPLY,
                       SSH2_MSG_KEX_DH_GEX_REQUEST} -> "ALLOWED"
          [] type = SSH2_MSG_USERAUTH_REQUEST -> filter_userauth_server(s)
          [] type = SSH2_MSG_USERAUTH_FAILURE -> filter_userauth_failure(s)
          [] type = SSH2_MSG_USERAUTH_SUCCESS -> filter_userauth_success(s)
          [] type = SSH2_MSG_USERAUTH_BANNER -> filter_userauth_banner(s)
          [] type = SSH2_MSG_USERAUTH_PK_OK -> filter_userauth_pk_ok(s)
          [] type = SSH2_MSG_USERAUTH_INFO_RESPONSE -> filter_userauth_info_response(s)
          [] type \in {SSH2_MSG_USERAUTH_GSSAPI_EXCHANGE_COMPLETE,
                       SSH2_MSG_USERAUTH_GSSAPI_ERROR,
                       SSH2_MSG_USERAUTH_GSSAPI_ERRTOK} -> "ALLOWED"
          [] type = SSH2_MSG_USERAUTH_GSSAPI_MIC -> filter_userauth_server(s)
          [] type = SSH2_MSG_GLOBAL_REQUEST -> filter_global_request(s)
          [] type \in {SSH2_MSG_REQUEST_SUCCESS, SSH2_MSG_REQUEST_FAILURE} ->
                filter_request_reply(s)
          [] type \in SSH2_MSG_CHANNEL_OPEN .. SSH2_MSG_CHANNEL_FAILURE ->
                filter_channel(s)
          [] OTHER -> filter_default(s)

(***************************************************************************)
(* The crypto binding (libssh/crypto.h, packet_crypt.c).  A cipher is its  *)
(* block sizes and a key; an hmac type is identified with its digest       *)
(* length, 0 standing for "no separate MAC".                               *)
(***************************************************************************)
\* digest length of the model's MAC algorithm
MacLen == 2

NoCipher == [blocksize |-> 8, lenfield_blocksize |-> 0, key |-> 0]
\* a zlib stream is the number of packets it has processed; NoStream is NULL
NoStream == -1

NoCrypto == [active |-> FALSE, in_cipher |-> NoCipher, out_cipher |-> NoCipher,
             in_hmac |-> 0, out_hmac |-> 0,
             do_compress_in |-> FALSE, do_compress_out |-> FALSE,
             compress_in_ctx |-> NoStream, compress_out_ctx |-> NoStream]

hmac_digest_len(type) == type

\* the sum modulo 256 of b[lo .. hi], by halves
RECURSIVE SumRange(_, _, _)
SumRange(b, lo, hi) ==
    IF lo > hi THEN 0
    ELSE IF lo = hi THEN b[lo] % 256
    ELSE (SumRange(b, lo, (lo + hi) \div 2) + SumRange(b, (lo + hi) \div 2 + 1, hi)) % 256

SumBytes(b) == SumRange(b, 1, Len(b))

\* the digest of (sequence number, bytes) under an hmac type
hmac_digest(type, seq, b) ==
    [i \in 1 .. hmac_digest_len(type) |-> (SumBytes(b) + seq[2] + i) % 256]

cipher_encrypt(cipher, b) == [i \in 1 .. Len(b) |-> (b[i] + cipher.key) % 256]
cipher_decrypt(cipher, b) == [i \in 1 .. Len(b) |-> (b[i] - cipher.key) % 256]

\* decrypts the first lenfield_blocksize bytes of the packet; without crypto
\* they are copied
ssh_packet_decrypt_len(s, source, lenfield_blocksize) ==
    IF s.current_crypto.active
    THEN cipher_decrypt(s.current_crypto.in_cipher, Take(source, lenfield_blocksize))
    ELSE Take(source, lenfield_blocksize)

\* decrypts len bytes of source from offset start; fails when len is not a
\* multiple of the cipher's block size
ssh_packet_decrypt(s, source, start, len) ==
    LET cipher == s.current_crypto.in_cipher
    IN  IF len % cipher.blocksize # 0
        THEN [rc |-> -1, out |-> <<>>]
        ELSE [rc |-> 0,
              out |-> cipher_decrypt(cipher, SubSeq(source, start + 1, start + len))]

\* verifies mac against the digest of (recv_seq, cleartext packet)
ssh_packet_hmac_verify(s, buffer, mac, type) ==
    IF mac = hmac_digest(type, s.recv_seq, buffer) THEN 0 ELSE -1

\* computes the MAC of (send_seq, cleartext packet) and encrypts the packet;
\* without crypto nothing is changed and no MAC is returned
ssh_packet_encrypt(s, b) ==
    IF ~s.current_crypto.active
    THEN [data |-> b, hmac |-> <<>>]
    ELSE [data |-> cipher_encrypt(s.current_crypto.out_cipher, b),
          hmac |-> hmac_digest(s.current_crypto.out_hmac, s.send_seq, b)]

(***************************************************************************)
(* gzip.c: compression of out_buffer and decompression of in_buffer with   *)
(* the zlib streams of the crypto context.  deflate and inflate stand for  *)
(* zlib: the output of a stream depends on the packets it has processed,   *)
(* inflate refuses data that is not the next output of its peer, and a run *)
(* of one byte value is coded in five bytes whatever its length.  The      *)
(* coded form is <<stream position, 0>> and the bytes, shifted, or         *)
(* <<stream position, 1, length / 256, length % 256, byte>>.               *)
(***************************************************************************)
\* shortest run that deflate codes as a run
MinRun == 6

IsRun(in) == Len(in) >= MinRun /\ Len(in) < 65536 /\ \A i \in 2 .. Len(in) : in[i] = in[1]

deflate(z, in) ==
    IF IsRun(in)
    THEN <<z % 256, 1, Len(in) \div 256, Len(in) % 256, in[1]>>
    ELSE <<z % 256, 0>> \o [i \in 1 .. Len(in) |-> (in[i] + z + 1) % 256]

\* what the stream decodes from the input of one packet, and how the
\* decoding ends: nothing from nothing, Z_DATA_ERROR for data that is not
\* the next output of the peer, Z_STREAM_END for a final block (coded
\* <<stream position, 2>> and the bytes, which deflate with Z_PARTIAL_FLUSH
\* never writes)
inflate(z, in) ==
    IF in = <<>> THEN [status |-> "Z_OK", out |-> <<>>]
    ELSE IF Len(in) < 2 \/ in[1] # z % 256
    THEN [status |-> "Z_DATA_ERROR", out |-> <<>>]
    ELSE IF in[2] \in {0, 2}
    THEN [status |-> IF in[2] = 0 THEN "Z_OK" ELSE "Z_STREAM_END",
          out |-> [i \in 1 .. Len(in) - 2 |-> (in[i + 2] - z - 1) % 256]]
    ELSE IF in[2] = 1 /\ Len(in) = 5
    THEN [status |-> "Z_OK", out |-> [i \in 1 .. in[3] * 256 + in[4] |-> in[5]]]
    ELSE [status |-> "Z_DATA_ERROR", out |-> <<>>]

\* one call inflate(zin, Z_PARTIAL_FLUSH) with avail_out bytes of room: zs is
\* the stream inside the packet (pend: decoded bytes not written yet, fresh:
\* input not read yet, end: how the decoding ends).  The call writes what
\* fits; it returns Z_BUF_ERROR when it could neither read nor write.
inflate_call(zs, avail_out) ==
    LET n == IF Len(zs.pend) < avail_out THEN Len(zs.pend) ELSE avail_out
        rest == Drop(zs.pend, n)
    IN  IF zs.end = "Z_DATA_ERROR"
        THEN [status |-> "Z_DATA_ERROR", out |-> <<>>, zs |-> zs]
        ELSE IF n = 0 /\ ~zs.fresh
        THEN [status |-> "Z_BUF_ERROR", out |-> <<>>, zs |-> zs]
        ELSE [status |-> IF rest = <<>> /\ zs.end = "Z_STREAM_END"
                         THEN "Z_STREAM_END" ELSE "Z_OK",
              out |-> Take(zs.pend, n),
              zs |-> [zs EXCEPT !.pend = rest, !.fresh = FALSE]]

\* gzip_compress with a stream initialised for every packet
gzip_compress_fresh_stream(s, source) ==
    [s |-> [s EXCEPT !.current_crypto.compress_out_ctx = 1],
     dest |-> deflate(0, source)]

\* gzip_compress: the stream is created on first use
gzip_compress(s, source) ==
    LET zout == IF s.current_crypto.compress_out_ctx = NoStream
                THEN 0 ELSE s.current_crypto.compress_out_ctx
    IN  [s |-> [s EXCEPT !.current_crypto.compress_out_ctx = zout + 1],
         dest |-> deflate(zout, source)]

compress_buffer(s) ==
    LET c == gzip_compress(s, s.out_buffer)
    IN  [rc |-> 0, s |-> [c.s EXCEPT !.out_buffer = c.dest]]

\* the result of the loop, with the calls of inflate it made (status,
\* out_maxlen at the call, avail_out after it)
Inflated(rc, dest, calls) == [rc |-> rc, dest |-> dest, calls |-> calls]

\* the loop with Z_BUF_ERROR taken for an error state
RECURSIVE inflate_loop_buf_error_fails(_, _, _, _, _)
inflate_loop_buf_error_fails(zs, out, out_maxlen, maxlen, calls) ==
    LET r == inflate_call(zs, out_maxlen - Len(out))
        out1 == out \o r.out
        avail_out == out_maxlen - Len(out1)
        calls1 == Append(calls, [status |-> r.status, out_maxlen |-> out_maxlen,
                                 avail_out |-> avail_out])
    IN  IF r.status = "Z_OK" /\ avail_out > 0 THEN Inflated("SSH_OK", out1, calls1)
        ELSE IF r.status # "Z_OK" THEN Inflated("SSH_ERROR", <<>>, calls1)
        ELSE IF out_maxlen >= maxlen THEN Inflated("SSH_ERROR", <<>>, calls1)
        ELSE inflate_loop_buf_error_fails(r.zs, out1, 2 * out_maxlen, maxlen, calls1)

\* the loop of _gzip_decompress (lines 230-273): inflate is called until it
\* leaves room in the output buffer or reports Z_BUF_ERROR; a full buffer is
\* doubled unless it has reached maxlen
RECURSIVE inflate_loop(_, _, _, _, _)
inflate_loop(zs, out, out_maxlen, maxlen, calls) ==
    LET r == inflate_call(zs, out_maxlen - Len(out))
        out1 == out \o r.out
        avail_out == out_maxlen - Len(out1)
        calls1 == Append(calls, [status |-> r.status, out_maxlen |-> out_maxlen,
                                 avail_out |-> avail_out])
    IN  IF r.status = "Z_OK" /\ avail_out > 0 THEN Inflated("SSH_OK", out1, calls1)
        ELSE IF r.status = "Z_BUF_ERROR" THEN Inflated("SSH_OK", out1, calls1)
        ELSE IF r.status # "Z_OK" THEN Inflated("SSH_ERROR", <<>>, calls1)
        ELSE IF out_maxlen >= maxlen THEN Inflated("SSH_ERROR", <<>>, calls1)
        ELSE inflate_loop(r.zs, out1, 2 * out_maxlen, maxlen, calls1)

gzip_decompress(s, source, maxlen) ==
    LET zin == IF s.current_crypto.compress_in_ctx = NoStream
               THEN 0 ELSE s.current_crypto.compress_in_ctx
        in_size == Len(source)
        m0 == IF 4 * in_size < 25 THEN 25 ELSE 4 * in_size
        out_maxlen == IF m0 > maxlen THEN maxlen ELSE m0
        inf == inflate(zin, source)
        s1 == [s EXCEPT !.current_crypto.compress_in_ctx = zin + 1]
        res == inflate_loop([pend |-> inf.out, end |-> inf.status, fresh |-> in_size > 0],
                            <<>>, out_maxlen, maxlen, <<>>)
    IN  [rc |-> res.rc, s |-> s1, dest |-> res.dest, calls |-> res.calls]

decompress_buffer(s, maxlen) ==
    LET d == gzip_decompress(s, s.in_buffer, maxlen)
    IN  IF d.rc = "SSH_ERROR"
        THEN [rc |-> -1, s |-> d.s]
        ELSE [rc |-> 0, s |-> [d.s EXCEPT !.in_buffer = d.dest]]

\* session->pcap_ctx: NULL, or a sink with the records written to it
NoPcap == [attached |-> FALSE, records |-> <<>>]

\* ssh_pcap_context_write(session->pcap_ctx, direction, data, len, len)
\* behind the test of session->pcap_ctx
ssh_pcap_context_write(s, direction, data) ==
    IF s.pcap_ctx.attached
    THEN [s EXCEPT !.pcap_ctx.records = Append(@, [direction |-> direction, data |-> data])]
    ELSE s

(***************************************************************************)
(* session->raw_counter: NULL, or the counters of payload bytes and        *)
(* packets of each direction.                                              *)
(***************************************************************************)
NoCounter == [alloc |-> FALSE, in_bytes |-> 0, out_bytes |-> 0,
              in_packets |-> 0, out_packets |-> 0]

ZeroCounter == [NoCounter EXCEPT !.alloc = TRUE]

\* lines 1125-1128: a received packet is counted
count_in(s, payloadsize) ==
    IF s.raw_counter.alloc
    THEN [s EXCEPT !.raw_counter.in_bytes = @ + payloadsize,
                   !.raw_counter.in_packets = @ + 1]
    ELSE s

\* the count of a sent packet booked on the incoming counters
count_out_as_in(s, payloadsize) ==
    IF s.raw_counter.alloc
    THEN [s EXCEPT !.raw_counter.in_bytes = @ + payloadsize,
                   !.raw_counter.in_packets = @ + 1]
    ELSE s

\* lines 1443-1446: a packet handed to the socket is counted
count_out(s, payloadsize) ==
    IF s.raw_counter.alloc
    THEN [s EXCEPT !.raw_counter.out_bytes = @ + payloadsize,
                   !.raw_counter.out_packets = @ + 1]
    ELSE s

(***************************************************************************)
(* ssh_packet_parse_type: in_packet is zeroed; the type byte is taken from *)
(* the front of in_buffer when there is one.                               *)
(***************************************************************************)
ZeroPacket == [len |-> 0, type |-> 0, valid |-> 0]

\* the type is read and the type byte left in in_buffer
ssh_packet_parse_type_peek(s) ==
    IF s.in_buffer = <<>>
    THEN [s EXCEPT !.in_packet = ZeroPacket]
    ELSE [s EXCEPT !.in_packet = [len |-> 0, type |-> s.in_buffer[1], valid |-> 1]]

ssh_packet_parse_type(s) ==
    IF s.in_buffer = <<>>
    THEN [s EXCEPT !.in_packet = ZeroPacket]
    ELSE [s EXCEPT !.in_packet = [len |-> 0, type |-> s.in_buffer[1], valid |-> 1],
                   !.in_buffer = Tail(s.in_buffer)]

(***************************************************************************)
(* ssh_packet_socket_callback, from its entry to its return or to the call *)
(* of ssh_packet_process / ssh_packet_send_unimplemented.  The result is   *)
(* the session, the value of `processed`, and what happens next:           *)
(*   "return"  the callback returns `processed`                            *)
(*   "process" the filter allowed the packet: ssh_packet_process is called *)
(*   "unimpl"  the filter does not know the type: UNIMPLEMENTED is sent    *)
(* `at` names the statement that ended this part of the callback.          *)
(***************************************************************************)
CbReturn(s, processed, at) ==
    [s |-> s, kind |-> "return", processed |-> processed, at |-> at]

\* the label error: returning 0 whatever was processed
CbError_nothing_processed(s, processed, at) ==
    [s |-> [s EXCEPT !.session_state = "ERROR"], kind |-> "return",
     processed |-> 0, at |-> at]

\* the label error: (lines 1179-1182)
CbError(s, processed, at) ==
    [s |-> [s EXCEPT !.session_state = "ERROR"], kind |-> "return",
     processed |-> processed, at |-> at]

\* the switch on the filter's result, with DENIED dispatched like ALLOWED
filter_switch_denied_dispatched(s, processed, filter_result) ==
    CASE filter_result \in {"ALLOWED", "DENIED"} ->
            [s |-> s, kind |-> "process", processed |-> processed, at |-> filter_result]
      [] filter_result = "UNKNOWN" ->
            [s |-> s, kind |-> "unimpl", processed |-> processed, at |-> "UNKNOWN"]

\* the switch on the filter's result (lines 1143-1153)
filter_switch(s, processed, filter_result) ==
    CASE filter_result = "ALLOWED" ->
            [s |-> s, kind |-> "process", processed |-> processed, at |-> "ALLOWED"]
      [] filter_result = "DENIED" -> CbError(s, processed, "DENIED")
      [] filter_result = "UNKNOWN" ->
            [s |-> s, kind |-> "unimpl", processed |-> processed, at |-> "UNKNOWN"]

\* the filter and the switch on its result (lines 1138-1153)
packet_filter(s, processed) ==
    filter_switch(s, processed, ssh_packet_incoming_filter(s))

\* lines 1111-1119: the payload is decompressed when compression is on
packet_decompress(s) ==
    IF /\ s.current_crypto.active
       /\ s.current_crypto.do_compress_in
       /\ Len(s.in_buffer) > 0
    THEN decompress_buffer(s, MAX_PACKET_LEN)
    ELSE [rc |-> 0, s |-> s]

\* after the decompression, with recv_seq incremented only once the filter
\* has allowed the packet
packet_decompressed_counts_allowed(dec, processed) ==
    IF dec.rc < 0
    THEN CbError(dec.s, processed, "decompress")
    ELSE LET s1 == ssh_packet_parse_type([count_in(dec.s, Len(dec.s.in_buffer))
                                            EXCEPT !.packet_state = "PROCESSING"])
             res == packet_filter(s1, processed)
         IN  IF res.at = "ALLOWED"
             THEN [res EXCEPT !.s.recv_seq = WAdd(s1.recv_seq, W(1))]
             ELSE res

\* lines 1115-1153: after the decompression, recv_seq is incremented, the
\* state becomes PROCESSING, the type is parsed and the packet filtered
packet_decompressed(dec, processed) ==
    IF dec.rc < 0
    THEN CbError(dec.s, processed, "decompress")
    ELSE packet_filter(
             ssh_packet_parse_type(
                 [count_in(dec.s, Len(dec.s.in_buffer))
                    EXCEPT !.recv_seq = WAdd(dec.s.recv_seq, W(1)),
                           !.packet_state = "PROCESSING"]),
             processed)

\* from the parse of the padding to the filter, with the padding left at the
\* end of in_buffer
packet_unframe_keeps_padding(s, processed) ==
    LET b4 == IF Len(s.in_buffer) >= 4 THEN Drop(s.in_buffer, 4) ELSE s.in_buffer
    IN  IF b4 = <<>>
        THEN CbError([s EXCEPT !.in_buffer = b4], processed, "padding_short")
        ELSE IF b4[1] > Len(Tail(b4))
        THEN CbError([s EXCEPT !.in_buffer = Tail(b4)], processed, "padding_invalid")
        ELSE packet_decompressed(packet_decompress([s EXCEPT !.in_buffer = Tail(b4)]),
                                 processed)

\* from the parse of the padding to the filter (lines 1091-1153)
packet_unframe(s, processed) ==
    LET \* skip the size field which has been processed before
        b4 == IF Len(s.in_buffer) >= 4 THEN Drop(s.in_buffer, 4) ELSE s.in_buffer
    IN  IF b4 = <<>>
        THEN CbError([s EXCEPT !.in_buffer = b4], processed, "padding_short")
        ELSE
        LET padding == b4[1]
            b5 == Tail(b4)
        IN  IF padding > Len(b5)
            THEN CbError([s EXCEPT !.in_buffer = b5], processed, "padding_invalid")
            ELSE packet_decompressed(
                     packet_decompress([s EXCEPT !.in_buffer =
                                           Take(b5, Len(b5) - padding)]),
                     processed)

\* case PACKET_STATE_SIZEREAD with the result of the MAC verification ignored
packet_sizeread_mac_unchecked(s, data, lenfield_blocksize, current_macsize) ==
    LET receivedlen == Len(data)
        packet_len == s.in_packet.len
        to_be_read == packet_len + 4 + current_macsize
    IN  IF to_be_read # 0 /\ receivedlen < to_be_read
        THEN CbReturn(s, 0, "partial")
        ELSE
        LET processed == IF to_be_read # 0 THEN to_be_read - current_macsize
                                           ELSE lenfield_blocksize
            packet_remaining == packet_len - (lenfield_blocksize - 4)
            second_block == SubSeq(data, lenfield_blocksize + 1,
                                   lenfield_blocksize + packet_remaining)
        IN  IF s.current_crypto.active
            THEN LET dec == IF packet_remaining > 0
                            THEN ssh_packet_decrypt(s, data, lenfield_blocksize,
                                                    processed - lenfield_blocksize)
                            ELSE [rc |-> 0, out |-> <<>>]
                 IN  IF dec.rc < 0
                     THEN CbError(s, processed, "decrypt")
                     ELSE packet_unframe([s EXCEPT !.in_buffer = s.in_buffer \o dec.out],
                                         processed + current_macsize)
            ELSE packet_unframe([s EXCEPT !.in_buffer = s.in_buffer \o second_block],
                                processed)

\* case PACKET_STATE_SIZEREAD (lines 1037-1089)
packet_sizeread(s, data, lenfield_blocksize, current_macsize) ==
    LET receivedlen == Len(data)
        packet_len == s.in_packet.len
        to_be_read == packet_len + 4 + current_macsize
    IN  IF to_be_read # 0 /\ receivedlen < to_be_read
        THEN CbReturn(s, 0, "partial")
        ELSE
        LET processed == IF to_be_read # 0 THEN to_be_read - current_macsize
                                           ELSE lenfield_blocksize
            \* remaining encrypted bytes from the packet, MAC not included
            packet_remaining == packet_len - (lenfield_blocksize - 4)
            second_block == SubSeq(data, lenfield_blocksize + 1,
                                   lenfield_blocksize + packet_remaining)
        IN  IF s.current_crypto.active
            THEN LET dec == IF packet_remaining > 0
                            THEN ssh_packet_decrypt(s, data, lenfield_blocksize,
                                                    processed - lenfield_blocksize)
                            ELSE [rc |-> 0, out |-> <<>>]
                     s1 == [s EXCEPT !.in_buffer = s.in_buffer \o dec.out]
                     mac == SubSeq(data, lenfield_blocksize + packet_remaining + 1,
                                   lenfield_blocksize + packet_remaining + current_macsize)
                 IN  IF dec.rc < 0
                     THEN CbError(s, processed, "decrypt")
                     ELSE IF ssh_packet_hmac_verify(s1, s1.in_buffer, mac,
                                                    s.current_crypto.in_hmac) < 0
                     THEN CbError(s1, processed, "hmac")
                     ELSE packet_unframe(s1, processed + current_macsize)
            ELSE packet_unframe([s EXCEPT !.in_buffer = s.in_buffer \o second_block],
                                processed)

\* state PROCESSING taken for SIZEREAD: the data is read as the current packet
callback_in_processing_reads(s, data, lenfield_blocksize, current_macsize) ==
    packet_sizeread(s, data, lenfield_blocksize, current_macsize)

\* case PACKET_STATE_PROCESSING (lines 1169-1171): nested call, return 0
callback_in_processing(s, data, lenfield_blocksize, current_macsize) ==
    CbReturn(s, 0, "nested")

\* the checks of packet_len with MAX_PACKET_LEN itself refused
packet_len_check_exclusive(packet_len, lenfield_blocksize) ==
    LET to_be_read == WInt(WAdd(WSub(packet_len, W(lenfield_blocksize)), W(4)))
    IN  IF ~WGt(W(MAX_PACKET_LEN), packet_len) THEN "len_too_high"
        ELSE IF to_be_read < 0 THEN "len_negative"
        ELSE "ok"

\* the checks of packet_len in state INIT (lines 1017-1032)
packet_len_check(packet_len, lenfield_blocksize) ==
    LET \* int to_be_read = packet_len - lenfield_blocksize + sizeof(uint32_t)
        to_be_read == WInt(WAdd(WSub(packet_len, W(lenfield_blocksize)), W(4)))
    IN  IF WGt(packet_len, W(MAX_PACKET_LEN)) THEN "len_too_high"
        ELSE IF to_be_read < 0 THEN "len_negative"
        ELSE "ok"

\* case PACKET_STATE_INIT with a feed shorter than the length block taken
\* for an error
packet_init_short_is_fatal(s, data, lenfield_blocksize) ==
    IF Len(data) < lenfield_blocksize
    THEN [exit |-> TRUE, res |-> CbError(s, 0, "short")]
    ELSE LET first == ssh_packet_decrypt_len(s, data, lenfield_blocksize)
             packet_len == ntohl(first)
             s1 == [s EXCEPT !.in_packet = ZeroPacket, !.in_buffer = first]
             check == packet_len_check(packet_len, lenfield_blocksize)
         IN  IF check # "ok"
             THEN [exit |-> TRUE, res |-> CbError(s1, lenfield_blocksize, check)]
             ELSE [exit |-> FALSE,
                   s |-> [s1 EXCEPT !.in_packet.len = WInt(packet_len),
                                    !.packet_state = "SIZEREAD"]]

\* case PACKET_STATE_INIT (lines 980-1036): the session with which the
\* callback falls through to SIZEREAD, or its exit
packet_init(s, data, lenfield_blocksize) ==
    LET first == ssh_packet_decrypt_len(s, data, lenfield_blocksize)
        packet_len == ntohl(first)
        s1 == [s EXCEPT !.in_packet = ZeroPacket, !.in_buffer = first]
        check == packet_len_check(packet_len, lenfield_blocksize)
    IN  IF Len(data) < lenfield_blocksize
        THEN [exit |-> TRUE, res |-> CbReturn(s, 0, "short")]
        ELSE IF check # "ok"
        THEN [exit |-> TRUE, res |-> CbError(s1, lenfield_blocksize, check)]
        ELSE [exit |-> FALSE,
              s |-> [s1 EXCEPT !.in_packet.len = WInt(packet_len),
                               !.packet_state = "SIZEREAD"]]

\* the switch with the length block put into in_buffer again in SIZEREAD
packet_state_after_init_rereads_length(s, init, data, lenfield_blocksize, current_macsize) ==
    IF s.packet_state = "PROCESSING"
    THEN callback_in_processing(s, data, lenfield_blocksize, current_macsize)
    ELSE IF s.packet_state = "INIT" /\ init.exit
    THEN init.res
    ELSE packet_sizeread(IF s.packet_state = "INIT" THEN init.s
                         ELSE IF Len(data) < lenfield_blocksize THEN s
                         ELSE [s EXCEPT !.in_buffer =
                                 @ \o ssh_packet_decrypt_len(s, data, lenfield_blocksize)],
                         data, lenfield_blocksize, current_macsize)

\* the switch once the case INIT is through
packet_state_after_init(s, init, data, lenfield_blocksize, current_macsize) ==
    IF s.packet_state = "PROCESSING"
    THEN callback_in_processing(s, data, lenfield_blocksize, current_macsize)
    ELSE IF s.packet_state = "INIT" /\ init.exit
    THEN init.res
    ELSE \* case SIZEREAD, entered directly or by falling through from INIT
         packet_sizeread(IF s.packet_state = "INIT" THEN init.s ELSE s,
                         data, lenfield_blocksize, current_macsize)

\* the switch with the sizes of a session that has no keys yet
packet_state_switch_sizes_before_keys(s, data) ==
    packet_state_after_init(s, packet_init(s, data, 8), data, 8, 0)

\* switch (session->packet_state) (lines 979-1171)
packet_state_switch(s, data) ==
    LET crypto == s.current_crypto
        blocksize == IF crypto.active THEN crypto.in_cipher.blocksize ELSE 8
        lenfield0 == IF crypto.active THEN crypto.in_cipher.lenfield_blocksize ELSE 8
        current_macsize == IF crypto.active THEN hmac_digest_len(crypto.in_hmac) ELSE 0
        lenfield_blocksize == IF lenfield0 = 0 THEN blocksize ELSE lenfield0
    IN  packet_state_after_init(s, packet_init(s, data, lenfield_blocksize), data,
                                lenfield_blocksize, current_macsize)

\* the callback without the test of session_state at its entry
socket_callback_unguarded(s, data) == packet_state_switch(s, data)

\* the callback reporting the whole feed as consumed in session state ERROR
socket_callback_drains_in_error(s, data) ==
    IF s.session_state = "ERROR"
    THEN CbError(s, Len(data), "session_error")
    ELSE packet_state_switch(s, data)

\* ssh_packet_socket_callback: in session state ERROR it leaves through error:
\* with processed = 0 (lines 964-966)
socket_callback(s, data) ==
    IF s.session_state = "ERROR"
    THEN CbError(s, 0, "session_error")
    ELSE packet_state_switch(s, data)

(***************************************************************************)
(* packet_send2 / ssh_packet_send: frames out_buffer and writes it to the  *)
(* socket.  `fault` names the step that fails in this call, if any (an     *)
(* allocation, deflate, the PRNG, the write); `rnd` is the PRNG's output.    *)
(* The result is the session, the value returned, and the bytes the socket *)
(* took (`wrote` is FALSE when the write failed or was not reached).       *)
(***************************************************************************)
SendFaults == {"none", "pack", "compress", "prng", "header", "prepend", "append", "hmac",
               "write", "reinit"}

\* rc: the value returned; reached: the call got to ssh_packet_write;
\* wrote: the socket took the bytes
SendResult(s, rc, reached, wrote, bytes) ==
    [s |-> s, rc |-> rc, reached |-> reached, wrote |-> wrote, bytes |-> bytes]

\* ssh_buffer_reinit: the buffer after the call.  The contract of the buffer
\* is "retain capacity, reset length": the length is reset whether or not the
\* call reports a failure
ssh_buffer_reinit(b) == <<>>

\* the write with send_seq counted only when the whole send succeeds
packet_write_counts_success(s, fault) ==
    LET s5 == [s EXCEPT !.send_seq = WAdd(s.send_seq, W(1))]
    IN  IF fault = "write"
        THEN SendResult([s EXCEPT !.out_buffer = ssh_buffer_reinit(s.out_buffer)],
                        "SSH_ERROR", TRUE, FALSE, s.out_buffer)
        ELSE IF fault = "reinit"
        THEN SendResult([s EXCEPT !.out_buffer = ssh_buffer_reinit(s.out_buffer)],
                        "SSH_ERROR", TRUE, TRUE, s.out_buffer)
        ELSE SendResult([s5 EXCEPT !.out_buffer = ssh_buffer_reinit(s.out_buffer)],
                        "SSH_OK", TRUE, TRUE, s.out_buffer)

\* from ssh_packet_write to the end of packet_send2 (lines 1441-1458):
\* send_seq is incremented whatever the write returned
packet_write(s, fault) ==
    LET s5 == [s EXCEPT !.send_seq = WAdd(s.send_seq, W(1))]
    IN  IF fault = "write"
        THEN SendResult([s5 EXCEPT !.out_buffer = ssh_buffer_reinit(s.out_buffer)],
                        "SSH_ERROR", TRUE, FALSE, s.out_buffer)
        ELSE IF fault = "reinit"
        THEN SendResult([s5 EXCEPT !.out_buffer = ssh_buffer_reinit(s.out_buffer)],
                        "SSH_ERROR", TRUE, TRUE, s.out_buffer)
        ELSE SendResult([s5 EXCEPT !.out_buffer = ssh_buffer_reinit(s.out_buffer)],
                        "SSH_OK", TRUE, TRUE, s.out_buffer)

\* lines 1375-1384: the payload is compressed when compression is on
packet_compress(s, fault) ==
    IF /\ s.current_crypto.active
       /\ s.current_crypto.do_compress_out
       /\ Len(s.out_buffer) > 0
    THEN IF fault = "compress" THEN [rc |-> -1, s |-> s] ELSE compress_buffer(s)
    ELSE [rc |-> 0, s |-> s]

\* lines 1424-1458: the MAC is appended to the encrypted packet, the packet
\* written
packet_hmac_write(s, enc, fault) ==
    IF enc.hmac # <<>> /\ fault = "hmac"
    THEN SendResult([s EXCEPT !.out_buffer = enc.data], "SSH_ERROR", FALSE, FALSE, <<>>)
    ELSE packet_write([s EXCEPT !.out_buffer = enc.data \o enc.hmac], fault)

\* lines 1419-1458: encryption, MAC and write of the framed packet
packet_encrypt_write(s, fault) ==
    packet_hmac_write(s, ssh_packet_encrypt(s, s.out_buffer), fault)

\* the framing with out_buffer reset when a step fails
packet_frame_resets_on_error(s, padding, fault, rnd) ==
    LET currentlen == Len(s.out_buffer)
        finallen == currentlen + padding + 1
        header == htonl(W(finallen)) \o <<padding>>
        padstring == IF s.current_crypto.active THEN [i \in 1 .. padding |-> rnd]
                                                ELSE Zeros(padding)
    IN  IF \/ s.current_crypto.active /\ fault = "prng"
           \/ fault \in {"header", "prepend", "append"}
        THEN SendResult([s EXCEPT !.out_buffer = <<>>], "SSH_ERROR", FALSE, FALSE, <<>>)
        ELSE packet_encrypt_write(
                 [s EXCEPT !.out_buffer = header \o s.out_buffer \o padstring], fault)

\* lines 1386-1429: padding, header and padding bytes around the payload,
\* and the record of the packet for the PCAP sink
packet_frame(s, padding, fault, rnd) ==
    LET currentlen == Len(s.out_buffer)
        finallen == currentlen + padding + 1
        header == htonl(W(finallen)) \o <<padding>>
        padstring == IF s.current_crypto.active THEN [i \in 1 .. padding |-> rnd]
                                                ELSE Zeros(padding)
    IN  IF s.current_crypto.active /\ fault = "prng"
        THEN SendResult(s, "SSH_ERROR", FALSE, FALSE, <<>>)
        ELSE IF fault = "header" THEN SendResult(s, "SSH_ERROR", FALSE, FALSE, <<>>)
        ELSE IF fault = "prepend" THEN SendResult(s, "SSH_ERROR", FALSE, FALSE, <<>>)
        ELSE IF fault = "append"
        THEN SendResult([s EXCEPT !.out_buffer = header \o s.out_buffer],
                        "SSH_ERROR", FALSE, FALSE, <<>>)
        ELSE packet_encrypt_write(
                 ssh_pcap_context_write(
                     [s EXCEPT !.out_buffer = header \o s.out_buffer \o padstring],
                     "SSH_PCAP_DIR_OUT", header \o s.out_buffer \o padstring),
                 fault)

\* the padding without the block added when it is below 4
packet_padding_no_minimum(s) ==
    LET crypto == s.current_crypto
        blocksize == IF crypto.active THEN crypto.out_cipher.blocksize ELSE 8
        lenfield_blocksize == IF crypto.active
                              THEN crypto.out_cipher.lenfield_blocksize ELSE 0
        currentlen == Len(s.out_buffer)
    IN  (blocksize - ((blocksize - lenfield_blocksize + currentlen + 5)
                       % blocksize)) % 256

\* lines 1386-1391: uint8_t padding, at least 4 bytes
packet_padding(s) ==
    LET crypto == s.current_crypto
        blocksize == IF crypto.active THEN crypto.out_cipher.blocksize ELSE 8
        lenfield_blocksize == IF crypto.active
                              THEN crypto.out_cipher.lenfield_blocksize ELSE 0
        currentlen == Len(s.out_buffer)
        padding == (blocksize - ((blocksize - lenfield_blocksize + currentlen + 5)
                                  % blocksize)) % 256
    IN  IF padding < 4 THEN (padding + blocksize) % 256 ELSE padding

\* packet_send2 once the payload went through the compression
packet_compressed(s0, comp, fault, rnd) ==
    IF comp.rc < 0 THEN SendResult(s0, "SSH_ERROR", FALSE, FALSE, <<>>)
    ELSE packet_frame(comp.s, packet_padding(comp.s), fault, rnd)

\* payloadsize is the length of out_buffer at the entry of packet_send2; the
\* counters move once ssh_packet_write was called
packet_send2(s0, fault, rnd) ==
    LET res == packet_compressed(s0, packet_compress(s0, fault), fault, rnd)
    IN  IF res.reached THEN [res EXCEPT !.s = count_out(res.s, Len(s0.out_buffer))]
        ELSE res

ssh_packet_send(s, fault, rnd) == packet_send2(s, fault, rnd)

(***************************************************************************)
(* ssh_packet_send_unimplemented: packs [UNIMPLEMENTED, seqnum] at the end *)
(* of out_buffer and sends it.                                             *)
(***************************************************************************)
ssh_packet_send_unimplemented(s, seqnum, fault, rnd) ==
    IF fault = "pack"
    THEN SendResult(s, "SSH_ERROR", FALSE, FALSE, <<>>)
    ELSE ssh_packet_send(
             [s EXCEPT !.out_buffer = s.out_buffer \o <<SSH2_MSG_UNIMPLEMENTED>>
                                                   \o htonl(seqnum)],
             fault, rnd)

(***************************************************************************)
(* The handler tables.  A table is its first type, its number of entries   *)
(* and the set of types whose entry is not NULL; what a handler does is    *)
(* left to the handler actions below.                                      *)
(***************************************************************************)
default_packet_handlers ==
    {1, 2, 3, 4, 6, 7, 20, 21, 31, 51, 52, 53, 60, 61, 81, 82} \cup (90 .. 100)
    \cup (IF WITH_SERVER THEN {5, 30, 50, 80} ELSE {})
    \cup (IF WITH_GSSAPI /\ WITH_SERVER THEN {66} ELSE {})

default_packet_callbacks ==
    [id |-> "default", start |-> 1, n_callbacks |-> 100,
     callbacks |-> default_packet_handlers]

\* tables a feature layer registers besides the default one
TableA == [id |-> "A", start |-> 2, n_callbacks |-> 51, callbacks |-> {2, 32, 52}]

TableB == [id |-> "B", start |-> 94, n_callbacks |-> 7, callbacks |-> {94}]

UserTables == {TableA, TableB}

NoList == [alloc |-> FALSE, elems |-> <<>>]

\* ssh_packet_set_callbacks: the list is created on first use, the table appended
packet_set_callbacks(s, callbacks) ==
    [s EXCEPT !.packet_callbacks =
        [alloc |-> TRUE, elems |-> Append(s.packet_callbacks.elems, callbacks)]]

\* the test of the loop with a table skipped when it starts at the type
handler_applies_after_start(cb, type) ==
    /\ ~(cb.start >= type)
    /\ ~(cb.start + cb.n_callbacks <= type)
    /\ type \in cb.callbacks

\* the test of the loop of ssh_packet_process: is the handler of cb called?
handler_applies(cb, type) ==
    /\ ~(cb.start > type)
    /\ ~(cb.start + cb.n_callbacks <= type)
    /\ type \in cb.callbacks

\* the position of the first table at or after `from` whose handler is called, or 0
next_handler(s, from, type) ==
    LET list == s.packet_callbacks.elems
        hits == {j \in from .. Len(list) : handler_applies(list[j], type)}
    IN  IF hits = {} THEN 0 ELSE CHOOSE j \in hits : \A k \in hits : j <= k

(***************************************************************************)
(* State.                                                                  *)
(*   session  the fields of the ssh_session the packet layer reads/writes  *)
(*   cb       the running ssh_packet_socket_callback: where it stands      *)
(*            (pc), the data and the number of the current recursion       *)
(*            level, the bytes processed by the outer levels (acc) and by  *)
(*            this one, the iterator (it) and result (r) of                *)
(*            ssh_packet_process, and the data (top) and recv_seq (seq0)   *)
(*            with which the socket entered the outermost level            *)
(*   log      what happened since the current level of the callback was    *)
(*            entered, or in the last send of the layers above             *)
(*   tally    counts over the whole run: failed environment operations,    *)
(*            sends that returned SSH_OK, sends that reached the socket    *)
(*            write, packets processed without a fatal error, packets that *)
(*            reached the filter, bytes of the peer's stream that the      *)
(*            socket has read                                              *)
(***************************************************************************)
VARIABLES session, cb, log, tally

vars == <<session, cb, log, tally>>

IdleFrame == [pc |-> "idle", data |-> <<>>, acc |-> 0, depth |-> 0, processed |-> 0,
              it |-> 0, r |-> "SSH_PACKET_NOT_USED", top |-> <<>>, seq0 |-> <<0, 0>>]

NoTally == [faults |-> 0, sends_ok |-> 0, sends_written |-> 0,
            recvs_ok |-> 0, recvs_framed |-> 0, arrived |-> 0]

\* the session phase the filter consults
Phase(s) == [client |-> s.client, server |-> s.server,
             session_state |-> s.session_state,
             dh_handshake_state |-> s.dh_handshake_state,
             auth_state |-> s.auth_state,
             auth_service_state |-> s.auth_service_state,
             global_req_state |-> s.global_req_state]

\* a log entry: what happened (k), the packet type, a number, a word, bytes,
\* a label, and the session phase and packet_state at that moment
Ev(s, k, type, n, w, b, f) ==
    [k |-> k, type |-> type, n |-> n, w |-> w, b |-> b, f |-> f, ph |-> Phase(s),
     ps |-> s.packet_state]

Config(s, frame, l, t) == [session |-> s, cb |-> frame, log |-> l, tally |-> t]

Become(c) ==
    /\ session' = c.session
    /\ cb' = c.cb
    /\ log' = c.log
    /\ tally' = c.tally

\* the log of c with `front` kept in front of it
LogAfter(front, c) == [c EXCEPT !.log = front \o c.log]

\* a send performed inside the session: its result, and its trace in the log
\* ("send": payload, sequence number, value returned; "write": the bytes the
\* socket took)
Sent(c, res, payload, fault) ==
    LET type == IF payload = <<>> THEN 0 ELSE payload[1]
        l1 == Append(c.log, Ev(res.s, "send", type, Len(payload),
                               c.session.send_seq, payload, res.rc))
        l2 == IF res.wrote
              THEN Append(l1, Ev(res.s, "write", type, Len(res.bytes),
                                 c.session.send_seq, res.bytes, res.rc))
              ELSE l1
    IN  [c EXCEPT !.session = res.s, !.log = l2,
                  !.tally.faults = @ + (IF fault = "none" THEN 0 ELSE 1),
                  !.tally.sends_ok = @ + (IF res.rc = "SSH_OK" THEN 1 ELSE 0),
                  !.tally.sends_written = @ + (IF res.reached THEN 1 ELSE 0)]

\* the callback returns `processed` at the current level (lines 1168, 1182);
\* the log keeps the value returned to the socket and the bytes of this level
\* left in the socket buffer
cb_return(c, processed, at) ==
    LET total == c.cb.acc + processed
    IN  [c EXCEPT !.cb = [IdleFrame EXCEPT !.top = c.cb.top, !.seq0 = c.cb.seq0],
                  !.log = Append(c.log, Ev(c.session, "ret", 0, total,
                                           c.session.recv_seq,
                                           Drop(c.cb.data, processed), at))]

\* the end of the callback without the call on the bytes left
cb_after_packet_no_recursion(c) ==
    cb_return([c EXCEPT !.session.packet_state = "INIT", !.tally.recvs_ok = @ + 1],
              c.cb.processed, "done")

\* the end of a packet with packet_state left at PROCESSING
cb_after_packet_stays_processing(c) ==
    LET c1 == [c EXCEPT !.tally.recvs_ok = @ + 1]
    IN  IF c.cb.processed < Len(c.cb.data)
        THEN [c1 EXCEPT !.cb = [c.cb EXCEPT
                                  !.pc = "leftover",
                                  !.data = Drop(c.cb.data, c.cb.processed),
                                  !.acc = c.cb.acc + c.cb.processed]]
        ELSE cb_return(c1, c.cb.processed, "done")

\* the call on the bytes left handed the whole data of its caller
cb_after_packet_keeps_data(c) ==
    LET c1 == [c EXCEPT !.session.packet_state = "INIT",
                        !.tally.recvs_ok = @ + 1]
    IN  IF c.cb.processed < Len(c.cb.data)
        THEN [c1 EXCEPT !.cb = [c.cb EXCEPT !.pc = "leftover"]]
        ELSE cb_return(c1, c.cb.processed, "done")

\* lines 1155-1168: back to INIT, then the bytes left in the socket buffer
cb_after_packet(c) ==
    LET c1 == [c EXCEPT !.session.packet_state = "INIT",
                        !.tally.recvs_ok = @ + 1]
    IN  IF c.cb.processed < Len(c.cb.data)
        THEN [c1 EXCEPT !.cb = [c.cb EXCEPT
                                  !.pc = "leftover",
                                  !.data = Drop(c.cb.data, c.cb.processed),
                                  !.acc = c.cb.acc + c.cb.processed]]
        ELSE cb_return(c1, c.cb.processed, "done")

\* ssh_packet_send_unimplemented called with session->recv_seq
cb_unimplemented_current_seq(c, fault, rnd) ==
    LET seqnum == c.session.recv_seq
        payload == c.session.out_buffer \o <<SSH2_MSG_UNIMPLEMENTED>> \o htonl(seqnum)
        res == ssh_packet_send_unimplemented(c.session, seqnum, fault, rnd)
        c1 == [c EXCEPT !.log = Append(c.log, Ev(c.session, "unimpl",
                                                 c.session.in_packet.type, 0,
                                                 seqnum, <<>>, ""))]
    IN  Sent(c1, res, payload, fault)

\* ssh_packet_send_unimplemented(session, session->recv_seq - 1), result ignored
cb_unimplemented(c, fault, rnd) ==
    LET seqnum == WSub(c.session.recv_seq, W(1))
        payload == c.session.out_buffer \o <<SSH2_MSG_UNIMPLEMENTED>> \o htonl(seqnum)
        res == ssh_packet_send_unimplemented(c.session, seqnum, fault, rnd)
        c1 == [c EXCEPT !.log = Append(c.log, Ev(c.session, "unimpl",
                                                 c.session.in_packet.type, 0,
                                                 seqnum, <<>>, ""))]
    IN  Sent(c1, res, payload, fault)

\* ssh_packet_process from table `from` on, up to the next handler call or
\* to its end, and then the rest of the callback
packet_process(c, from, fault, rnd) ==
    LET s == c.session
        type == s.in_packet.type
        j == next_handler(s, from, type)
    IN  IF ~s.packet_callbacks.alloc
        THEN cb_after_packet(c)
        ELSE IF j # 0
        THEN [c EXCEPT !.cb.pc = "handler", !.cb.it = j,
                       !.log = Append(c.log,
                                      Ev(s, "call", type, j, s.recv_seq, s.in_buffer,
                                         s.packet_callbacks.elems[j].id))]
        ELSE IF c.cb.r = "SSH_PACKET_NOT_USED"
        THEN cb_after_packet(cb_unimplemented(c, fault, rnd))
        ELSE cb_after_packet(c)

\* the callback went through its switch with result `res`: the level is
\* entered in the log, and the callback returns, sends UNIMPLEMENTED or calls
\* the handlers
callback_dispatch(c, data, res, fault, rnd) ==
    LET framed == res.at \in {"ALLOWED", "DENIED", "UNKNOWN"}
        l1 == <<Ev(c.session, "feed", 0, Len(data), c.session.recv_seq, data, c.cb.pc)>>
        \* the phase the filter saw is the one at entry: nothing before the
        \* filter assigns it
        l2 == IF framed
              THEN Append(l1, Ev(c.session, "packet", res.s.in_packet.type, res.processed,
                                 res.s.recv_seq, res.s.in_buffer, res.at))
              ELSE l1
        c1 == [c EXCEPT !.session = res.s,
                        !.cb = [c.cb EXCEPT !.data = data, !.processed = res.processed,
                                            !.depth = c.cb.depth + 1,
                                            !.r = "SSH_PACKET_NOT_USED",
                                            !.top = IF c.cb.depth = 0 THEN data ELSE @,
                                            !.seq0 = IF c.cb.depth = 0
                                                     THEN c.session.recv_seq ELSE @],
                        !.log = l2,
                        !.tally.recvs_framed = @ + (IF framed THEN 1 ELSE 0)]
    IN  CASE res.kind = "return" -> cb_return(c1, res.processed, res.at)
          [] res.kind = "unimpl" -> cb_after_packet(cb_unimplemented(c1, fault, rnd))
          [] res.kind = "process" -> packet_process(c1, 1, fault, rnd)

\* one level of ssh_packet_socket_callback on `data`, up to its return or to
\* the first handler call
callback_level(c, data, fault, rnd) ==
    callback_dispatch(c, data, socket_callback(c.session, data), fault, rnd)

\* a call of the callback from inside a handler: its result goes to the
\* handler, the level that runs the handler goes on
callback_nested(c, data, res) ==
    [c EXCEPT !.session = res.s,
              !.log = Append(c.log, Ev(res.s, "nested", 0, res.processed,
                                       res.s.recv_seq, data, res.at))]

(***************************************************************************)
(* What the peer may put on the socket (no crypto): packets by their       *)
(* fields, whole, truncated and concatenated.                              *)
(***************************************************************************)
\* the bytes of a packet from its fields
Packet(packet_length, padding_length, payload, padding) ==
    htonl(packet_length) \o <<padding_length>> \o payload \o Zeros(padding)

\* a well-framed packet around a payload, with padding of n bytes
Framed(payload, n) == Packet(W(1 + Len(payload) + n), n, payload, n)

\* the example of the specification: length 12, padding 10, IGNORE
IgnorePacket == Framed(<<SSH2_MSG_IGNORE>>, 10)

GoodPackets ==
    {IgnorePacket,
     Framed(<<SSH2_MSG_KEX_DH_GEX_REPLY>>, 4),        \* allowed, no default handler
     Framed(<<SSH2_MSG_CHANNEL_DATA, 5>>, 4),
     Framed(<<250>>, 4)}

BadPackets ==
    {Packet(W(MAX_PACKET_LEN + 1), 4, <<2>>, 2),      \* length too high
     Packet(<<65535, 65535>>, 4, <<2>>, 2),
     Packet(W(MAX_PACKET_LEN), 4, <<2>>, 2),          \* highest length, incomplete
     Packet(<<32768, 0>>, 4, <<2>>, 2),
     Packet(W(3), 4, <<2>>, 2),                       \* to_be_read < 0
     Packet(W(0), 4, <<2>>, 2),
     Packet(W(4), 3, <<>>, 3),                        \* no payload at all
     Packet(W(6), 9, <<2>>, 4),                       \* padding beyond the packet
     Packet(W(12), 11, <<>>, 11),                     \* aligned, padded, no payload
     Packet(W(12), 3, <<2, 1, 2, 3, 4, 5, 6, 7>>, 3)} \* IGNORE with a padding of 3

FeedInputs ==
    GoodPackets \cup BadPackets
    \cup {Take(IgnorePacket, 4), Take(IgnorePacket, 8)}
    \cup {p \o q : p \in {IgnorePacket, Framed(<<250>>, 4),
                          Framed(<<SSH2_MSG_CHANNEL_DATA, 5>>, 4)},
                   q \in {IgnorePacket, Take(IgnorePacket, 8)}}

\* what a handler makes the socket deliver in a nested call
NestedInputs == {IgnorePacket, Take(IgnorePacket, 4)}

\* payloads the session itself sends
SendPayloads == {<<SSH2_MSG_IGNORE>>, <<SSH2_MSG_CHANNEL_DATA, 5>>}

\* the faults of the environment when no crypto is active
PlainFaults == {"none", "pack", "prepend", "append", "write", "reinit"}

\* at most MaxFaults operations of the environment fail in a run
MaxFaults == 1

Faults(set) == IF tally.faults < MaxFaults THEN set ELSE {"none"}

\* the phases the layers above move the session through
PhaseMenu ==
    {<<"INITIAL_KEX", "DH_STATE_INIT", "NONE", "SSH_AUTH_SERVICE_NONE", "NONE">>,
     <<"AUTHENTICATED", "DH_STATE_FINISHED", "SUCCESS",
       "SSH_AUTH_SERVICE_ACCEPTED", "PENDING">>,
     <<"ERROR", "DH_STATE_FINISHED", "SUCCESS", "SSH_AUTH_SERVICE_ACCEPTED", "NONE">>}

SetPhase(s, p) ==
    [s EXCEPT !.session_state = p[1], !.dh_handshake_state = p[2],
              !.auth_state = p[3], !.auth_service_state = p[4],
              !.global_req_state = p[5]]

(***************************************************************************)
(* The session after construction, before keys are exchanged.              *)
(***************************************************************************)
NewSession(client) ==
    [client |-> client, server |-> ~client,
     session_state |-> "INITIAL_KEX",
     dh_handshake_state |-> "DH_STATE_INIT",
     auth_state |-> "NONE",
     auth_service_state |-> "SSH_AUTH_SERVICE_NONE",
     global_req_state |-> "NONE",
     \* request_state of the channel the session has open
     channel_request_state |-> "NONE",
     packet_state |-> "INIT",
     in_packet |-> ZeroPacket,
     in_buffer |-> <<>>,
     out_buffer |-> <<>>,
     recv_seq |-> W(0),
     send_seq |-> W(0),
     current_crypto |-> NoCrypto,
     raw_counter |-> NoCounter,
     \* the channels of the session, in the order of session->channels
     channels |-> <<>>,
     pcap_ctx |-> NoPcap,
     packet_callbacks |-> NoList]

Init ==
    /\ session = NewSession(TRUE)
    /\ cb = IdleFrame
    /\ log = <<>>
    /\ tally = NoTally

Here == Config(session, cb, log, tally)

\* no packet went through the session yet
Untouched(s) ==
    /\ s.recv_seq = W(0) /\ s.send_seq = W(0)
    /\ s.packet_state = "INIT" /\ s.in_buffer = <<>> /\ s.out_buffer = <<>>

(***************************************************************************)
(* Actions.                                                                *)
(***************************************************************************)
\* ssh_packet_set_default_callbacks, during the set-up of the session
SetDefaultCallbacks ==
    /\ cb.pc = "idle" /\ log = <<>> /\ Untouched(session)
    /\ Len(session.packet_callbacks.elems) < MaxTables
    /\ \A j \in 1 .. Len(session.packet_callbacks.elems) :
           session.packet_callbacks.elems[j].id # "default"
    /\ session' = packet_set_callbacks(session, default_packet_callbacks)
    /\ UNCHANGED <<cb, log, tally>>

\* ssh_packet_set_callbacks with a table of a feature layer, during set-up
SetCallbacks(t) ==
    /\ cb.pc = "idle" /\ log = <<>> /\ Untouched(session)
    /\ Len(session.packet_callbacks.elems) < MaxTables
    /\ \A j \in 1 .. Len(session.packet_callbacks.elems) :
           session.packet_callbacks.elems[j].id # t.id
    /\ session' = packet_set_callbacks(session, t)
    /\ UNCHANGED <<cb, log, tally>>

\* the handler running in c returns rv: the loop of ssh_packet_process ends
\* or goes on with the next table
handler_return(c0, rv, fault) ==
    LET c == [c0 EXCEPT !.cb.r = rv,
                        !.log = Append(c0.log, Ev(c0.session, "handled",
                                                  c0.session.in_packet.type, c0.cb.it,
                                                  c0.session.recv_seq, <<>>, rv))]
    IN  IF rv = "SSH_PACKET_USED"
        THEN cb_after_packet(c)
        ELSE packet_process(c, c0.cb.it + 1, fault, 7)

\* the socket calls ssh_packet_socket_callback with the bytes it holds
SocketData(data, fault) ==
    /\ cb.pc = "idle"
    /\ WInt(session.recv_seq) < MaxRecv \/ session.session_state = "ERROR"
    /\ Become(callback_level(Here, data, fault, 7))

\* the recursive call of the callback on the bytes left in the socket buffer
SocketLeftover(fault) ==
    /\ cb.pc = "leftover"
    /\ Become(callback_level(Here, cb.data, fault, 7))

\* the running handler returns
HandlerReturn(rv, fault) ==
    /\ cb.pc = "handler"
    /\ Become(handler_return(Here, rv, fault))

\* the running handler packs a payload into out_buffer and calls ssh_packet_send
HandlerSend(payload, fault) ==
    /\ cb.pc = "handler"
    /\ WInt(session.send_seq) < MaxSend
    /\ log[Len(log)].k = "call"
    /\ LET s == [session EXCEPT !.out_buffer = session.out_buffer \o payload]
       IN  Become(Sent(Here, ssh_packet_send(s, fault, 7), s.out_buffer, fault))

\* the running handler makes the socket deliver data: a nested call of the callback
HandlerFeed(data) ==
    /\ cb.pc = "handler"
    /\ log[Len(log)].k = "call"
    /\ Become(callback_nested(Here, data, socket_callback(session, data)))

\* the running handler moves the session to another phase
HandlerSetPhase(p) ==
    /\ cb.pc = "handler"
    /\ Phase(SetPhase(session, p)) # Phase(session)
    /\ session' = SetPhase(session, p)
    /\ UNCHANGED <<cb, log, tally>>

\* the layers above move the session to another phase between two feeds
AppSetPhase(p) ==
    /\ cb.pc = "idle"
    /\ Phase(SetPhase(session, p)) # Phase(session)
    /\ session' = SetPhase(session, p)
    /\ log' = <<>>
    /\ cb' = IdleFrame
    /\ UNCHANGED tally

\* the layers above pack a payload into out_buffer and call ssh_packet_send
AppSend(payload, fault, rnd) ==
    /\ cb.pc = "idle"
    /\ WInt(session.send_seq) < MaxSend
    /\ LET s == [session EXCEPT !.out_buffer = session.out_buffer \o payload]
       IN  Become(Sent([Here EXCEPT !.log = <<>>, !.cb = IdleFrame],
                       ssh_packet_send(s, fault, rnd),
                       s.out_buffer, fault))

\* the layers above send while nothing they wrote is still on its way
LoopSend(payload, rnd) ==
    /\ session.send_seq = session.recv_seq
    /\ AppSend(payload, "none", rnd)

\* the one packet on its way arrives: the receive callback is fed exactly the
\* bytes the last send wrote; the log keeps that send and its write in front
\* of the feed
FeedWire ==
    /\ cb.pc = "idle"
    /\ session.send_seq = WAdd(session.recv_seq, W(1))
    /\ WInt(session.recv_seq) < MaxSend
    /\ \E w \in 2 .. Len(log) :
          /\ log[w].k = "write" /\ log[w - 1].k = "send"
          /\ \A v \in w + 1 .. Len(log) : log[v].k # "write"
          /\ Become(LogAfter(<<log[w - 1], log[w]>>,
                             callback_level(Here, log[w].b, "none", 7)))

HandlerReturns == {"SSH_PACKET_USED", "SSH_PACKET_NOT_USED"}

(***************************************************************************)
(* Spec: framing, filtering and dispatch in a fault-free environment whose *)
(* handlers only return.                                                   *)
(***************************************************************************)
Next ==
    \/ SetDefaultCallbacks
    \/ SetCallbacks(TableA)
    \/ \E d \in FeedInputs : SocketData(d, "none")
    \/ SocketLeftover("none")
    \/ \E rv \in HandlerReturns : HandlerReturn(rv, "none")
    \/ \E p \in PhaseMenu : AppSetPhase(p)
    \/ \E p \in SendPayloads : AppSend(p, "none", 7)

Spec == Init /\ [][Next]_vars

(***************************************************************************)
(* SpecFault: the same with an environment in which allocations and the    *)
(* socket write may fail.                                                  *)
(***************************************************************************)
FaultInputs ==
    {IgnorePacket, Framed(<<SSH2_MSG_KEX_DH_GEX_REPLY>>, 4),
     Framed(<<SSH2_MSG_CHANNEL_DATA, 5>>, 4), Framed(<<250>>, 4),
     Framed(<<250>>, 4) \o IgnorePacket,
     Packet(W(MAX_PACKET_LEN + 1), 4, <<2>>, 2)}

NextFault ==
    \/ SetDefaultCallbacks
    \/ \E d \in FaultInputs, f \in Faults(PlainFaults) : SocketData(d, f)
    \/ \E f \in Faults(PlainFaults) : SocketLeftover(f)
    \/ \E rv \in HandlerReturns, f \in Faults(PlainFaults) : HandlerReturn(rv, f)
    \/ \E p \in PhaseMenu : AppSetPhase(p)
    \/ \E p \in SendPayloads, f \in Faults(PlainFaults) : AppSend(p, f, 7)

SpecFault == Init /\ [][NextFault]_vars

(***************************************************************************)
(* SpecHandler: handlers that send, change the phase and make the socket   *)
(* deliver data while they run.                                            *)
(***************************************************************************)
HandlerInputs ==
    {IgnorePacket, Framed(<<SSH2_MSG_CHANNEL_DATA, 5>>, 4),
     IgnorePacket \o IgnorePacket, IgnorePacket \o Take(IgnorePacket, 8)}

NextHandler ==
    \/ SetDefaultCallbacks
    \/ SetCallbacks(TableA)
    \/ \E d \in HandlerInputs : SocketData(d, "none")
    \/ SocketLeftover("none")
    \/ \E rv \in HandlerReturns : HandlerReturn(rv, "none")
    \/ \E p \in SendPayloads : HandlerSend(p, "none")
    \/ \E d \in NestedInputs : HandlerFeed(d)
    \/ \E p \in PhaseMenu : HandlerSetPhase(p)
    \/ \E p \in PhaseMenu : AppSetPhase(p)

SpecHandler == Init /\ [][NextHandler]_vars

(***************************************************************************)
(* SpecUserauth: a session of either role, in any phase of key exchange    *)
(* and authentication, with the default handlers registered, receives      *)
(* USERAUTH_SUCCESS; its handler may move the session on.                  *)
(***************************************************************************)
InPhase(client, ss, dh, auth, req) ==
    [packet_set_callbacks(NewSession(client), default_packet_callbacks)
       EXCEPT !.session_state = ss, !.dh_handshake_state = dh,
              !.auth_state = auth, !.global_req_state = req]

InitUserauth ==
    /\ session \in {InPhase(c, ss, dh, auth, "NONE") :
                      c \in BOOLEAN, ss \in SessionStates, dh \in DhStates,
                      auth \in AuthStates}
    /\ cb = IdleFrame
    /\ log = <<>>
    /\ tally = NoTally

UserauthInputs ==
    {Framed(<<SSH2_MSG_USERAUTH_SUCCESS>>, 4),
     Framed(<<SSH2_MSG_USERAUTH_SUCCESS>>, 4) \o Framed(<<SSH2_MSG_USERAUTH_SUCCESS>>, 4)}

NextUserauth ==
    \/ \E d \in UserauthInputs : SocketData(d, "none")
    \/ SocketLeftover("none")
    \/ \E rv \in HandlerReturns : HandlerReturn(rv, "none")
    \/ \E p \in PhaseMenu : HandlerSetPhase(p)

SpecUserauth == InitUserauth /\ [][NextUserauth]_vars

\* the events of one kind in the log
Events(k) == {i \in 1 .. Len(log) : log[i].k = k}

\* the phase in which USERAUTH_SUCCESS is expected
UserauthSuccessPhase(ph) ==
    /\ ph.client /\ ~ph.server
    /\ ph.dh_handshake_state = "DH_STATE_FINISHED"
    /\ ph.session_state = "AUTHENTICATING"
    /\ ph.auth_state \in {"KBDINT_SENT", "PUBKEY_AUTH_SENT", "PASSWORD_AUTH_SENT",
                          "GSSAPI_MIC_SENT", "AUTH_NONE_SENT"}

\* C1: a handler is called for a USERAUTH_SUCCESS packet only if the packet was
\* filtered in the expected phase (client, dh FINISHED, AUTHENTICATING, auth
\* state one of the five "sent" states); in every other phase the filter
\* returns DENIED and no handler is called for the packet.
C1_UserauthSuccessGate ==
    /\ \A i \in Events("call") :
          log[i].type = SSH2_MSG_USERAUTH_SUCCESS =>
             \E j \in Events("packet") :
                /\ j < i
                /\ log[j].type = SSH2_MSG_USERAUTH_SUCCESS
                /\ log[j].f = "ALLOWED"
                /\ UserauthSuccessPhase(log[j].ph)
    /\ \A j \in Events("packet") :
          (log[j].type = SSH2_MSG_USERAUTH_SUCCESS /\ ~UserauthSuccessPhase(log[j].ph))
             => /\ log[j].f = "DENIED"
                /\ Events("call") = {}
                /\ cb.pc # "handler"
    /\ (cb.pc = "handler" /\ session.in_packet.type = SSH2_MSG_USERAUTH_SUCCESS)
          => \E j \in Events("packet") : UserauthSuccessPhase(log[j].ph)

\* the handler of USERAUTH_SUCCESS runs for a packet filtered after AUTH_NONE_SENT
C1_Witness ==
    /\ cb.pc = "handler"
    /\ session.in_packet.type = SSH2_MSG_USERAUTH_SUCCESS
    /\ \E j \in Events("packet") : log[j].ph.auth_state = "AUTH_NONE_SENT"
    /\ \E i \in Events("call") : log[i].f = "default"

(***************************************************************************)
(* SpecConnection: a session of either role, in any session state and any  *)
(* state of its global request, receives connection-layer packets.         *)
(***************************************************************************)
InitConnection ==
    /\ session \in {InPhase(c, ss, "DH_STATE_FINISHED", "SUCCESS", req) :
                      c \in BOOLEAN, ss \in SessionStates, req \in ChannelReqStates}
    /\ cb = IdleFrame
    /\ log = <<>>
    /\ tally = NoTally

ConnectionTypes ==
    {SSH2_MSG_GLOBAL_REQUEST, SSH2_MSG_REQUEST_SUCCESS, SSH2_MSG_REQUEST_FAILURE}
    \cup (SSH2_MSG_CHANNEL_OPEN .. SSH2_MSG_CHANNEL_REQUEST)

ConnectionInputs ==
    {Framed(<<t>>, 4) : t \in ConnectionTypes}
    \cup {Framed(<<SSH2_MSG_CHANNEL_DATA>>, 4) \o Framed(<<SSH2_MSG_REQUEST_SUCCESS>>, 4)}

NextConnection ==
    \/ \E d \in ConnectionInputs : SocketData(d, "none")
    \/ SocketLeftover("none")
    \/ \E rv \in HandlerReturns : HandlerReturn(rv, "none")
    \/ \E p \in PhaseMenu : HandlerSetPhase(p)

SpecConnection == InitConnection /\ [][NextConnection]_vars

\* C2: GLOBAL_REQUEST and CHANNEL_OPEN .. CHANNEL_REQUEST are ALLOWED exactly
\* when the packet is filtered in session state AUTHENTICATED, REQUEST_SUCCESS
\* and REQUEST_FAILURE exactly when moreover the global request is PENDING,
\* and DENIED otherwise; no handler is called for any of them when the packet
\* was filtered before AUTHENTICATED.
C2_ConnectionGate ==
    /\ \A j \in Events("packet") :
          LET ph == log[j].ph
              auth == ph.session_state = "AUTHENTICATED"
          IN  /\ log[j].type \in {SSH2_MSG_GLOBAL_REQUEST}
                                  \cup (SSH2_MSG_CHANNEL_OPEN .. SSH2_MSG_CHANNEL_REQUEST)
                    => log[j].f = allow(auth)
              /\ log[j].type \in {SSH2_MSG_REQUEST_SUCCESS, SSH2_MSG_REQUEST_FAILURE}
                    => log[j].f = allow(auth /\ ph.global_req_state = "PENDING")
    /\ \A i \in Events("call") :
          log[i].type \in ConnectionTypes
             => \E j \in Events("packet") :
                   /\ j < i
                   /\ log[j].type = log[i].type
                   /\ log[j].ph.session_state = "AUTHENTICATED"
    /\ (cb.pc = "handler" /\ session.in_packet.type \in ConnectionTypes)
          => \E j \in Events("packet") : log[j].ph.session_state = "AUTHENTICATED"

\* REQUEST_SUCCESS reaches its handler in an authenticated session with a
\* pending global request
C2_Witness ==
    /\ cb.pc = "handler"
    /\ session.in_packet.type = SSH2_MSG_REQUEST_SUCCESS
    /\ \E j \in Events("packet") :
          /\ log[j].f = "ALLOWED"
          /\ log[j].ph.global_req_state = "PENDING"
          /\ log[j].ph.session_state = "AUTHENTICATED"

\* the last entry of the log
Last == log[Len(log)]

\* C3: when the filter denies an assembled packet, the callback returns at once:
\* no handler is called and no UNIMPLEMENTED (nor anything else) is sent for
\* it, session_state is ERROR at the return, and the bytes after the packet
\* stay unprocessed: they are left in the socket buffer, the callback does not
\* recurse and recv_seq stays as the packet left it.
C3_DeniedIsFatal ==
    \A j \in Events("packet") :
       log[j].f = "DENIED" =>
          /\ j = 2 /\ Len(log) = 3
          /\ Events("call") = {} /\ Events("unimpl") = {}
          /\ Events("send") = {} /\ Events("write") = {}
          /\ Last.k = "ret" /\ Last.f = "DENIED"
          /\ Last.ph.session_state = "ERROR"
          /\ Last.b = Drop(log[1].b, log[j].n)
          /\ Last.w = log[j].w
          /\ cb.pc = "idle"

\* CHANNEL_DATA followed by IGNORE is fed during key exchange: the first is
\* denied and the second stays in the socket buffer
C3_Witness ==
    /\ Len(log) = 3
    /\ log[2].k = "packet" /\ log[2].f = "DENIED"
    /\ log[2].type = SSH2_MSG_CHANNEL_DATA
    /\ log[2].ph.session_state = "INITIAL_KEX"
    /\ Last.b = IgnorePacket
    /\ session.session_state = "ERROR"

\* the length field of a feed that enters the callback in state INIT with at
\* least lenfield_blocksize (8, no crypto) bytes
LengthRead(fd) ==
    /\ fd.k = "feed" /\ fd.ps = "INIT" /\ fd.n >= 8
    /\ fd.ph.session_state # "ERROR"

\* the callback returned from state INIT without leaving it
StoppedInInit == Len(log) = 2 /\ Last.k = "ret" /\ Last.ps = "INIT"

\* C4: in state INIT (no crypto, lenfield_blocksize 8) a length field above
\* 35000 or below 8 - 4 is fatal: session_state becomes ERROR, no handler is
\* called, nothing is sent and recv_seq stays; every length from 4 to 35000
\* passes the check and the packet is taken into state SIZEREAD.
C4_LengthCheck ==
    (log # <<>> /\ LengthRead(log[1])) =>
       LET len == ntohl(log[1].b)
           bad == WGt(len, W(35000)) \/ WGt(W(8 - 4), len)
       IN  /\ bad => /\ StoppedInInit
                     /\ Last.ph.session_state = "ERROR"
                     /\ Last.w = log[1].w
                     /\ Events("call") = {} /\ Events("unimpl") = {}
                     /\ Events("send") = {} /\ Events("packet") = {}
                     /\ cb.pc = "idle"
           /\ ~bad => ~StoppedInInit

\* a length field of 35000 was accepted: the callback waits in SIZEREAD for
\* the rest of the packet
C4_Witness ==
    /\ log # <<>> /\ LengthRead(log[1])
    /\ ntohl(log[1].b) = W(35000)
    /\ Last.k = "ret" /\ Last.ps = "SIZEREAD"
    /\ session.in_packet.len = 35000
    /\ session.session_state # "ERROR"

\* the bytes of an UNIMPLEMENTED packet for a sequence number, without crypto:
\* length 12, padding 6, type 3, the number, six bytes of padding
UnimplementedPacket(seq) ==
    <<0, 0, 0, 12, 6, 3>> \o htonl(seq) \o <<0, 0, 0, 0, 0, 0>>

\* after the packet of the current level the callback goes on with the bytes
\* that follow it, in state INIT and in the session state the filter saw
GoesOn(j) ==
    \/ /\ cb.pc = "leftover"
       /\ cb.data = Drop(log[1].b, log[j].n) /\ cb.data # <<>>
       /\ session.packet_state = "INIT"
       /\ session.session_state = log[j].ph.session_state
    \/ /\ cb.pc = "idle"
       /\ Last.k = "ret" /\ Last.f = "done" /\ Last.b = <<>>
       /\ log[j].n = log[1].n
       /\ Last.ps = "INIT"
       /\ Last.ph.session_state = log[j].ph.session_state

\* C5: for an assembled packet the filter classifies as UNKNOWN no handler is
\* called, exactly one packet is sent, an UNIMPLEMENTED carrying recv_seq - 1 as
\* recv_seq stands after the packet was counted, session_state does not become
\* ERROR and the callback goes on with the bytes after the packet.
C5_UnknownGetsUnimplemented ==
    \A j \in Events("packet") :
       log[j].f = "UNKNOWN" =>
          LET seq == WSub(log[j].w, W(1))
          IN  /\ Events("call") = {}
              /\ Events("unimpl") = {j + 1} /\ log[j + 1].w = seq
              /\ Events("send") = {j + 2}
              /\ log[j + 2].b = <<SSH2_MSG_UNIMPLEMENTED>> \o htonl(seq)
              /\ Events("write") = {j + 3}
              /\ log[j + 3].b = UnimplementedPacket(seq)
              /\ log[j].ph.session_state # "ERROR"
              /\ GoesOn(j)

\* the first packet of the session has the unknown type 250 and IGNORE follows
\* it in the same feed: UNIMPLEMENTED(0) is on the wire and IGNORE is next
C5_Witness ==
    /\ Len(log) = 5
    /\ log[2].k = "packet" /\ log[2].f = "UNKNOWN" /\ log[2].type = 250
    /\ log[2].w = W(1)
    /\ log[5].k = "write" /\ log[5].b = UnimplementedPacket(W(0))
    /\ cb.pc = "leftover" /\ cb.data = IgnorePacket

(***************************************************************************)
(* SpecDispatch: well-framed packets meet every order of the default table *)
(* and the tables of two feature layers, in a fault-free environment.      *)
(***************************************************************************)
DispatchInputs ==
    GoodPackets \cup {Framed(<<250>>, 4) \o IgnorePacket, IgnorePacket \o IgnorePacket}

NextDispatch ==
    \/ SetDefaultCallbacks
    \/ \E t \in UserTables : SetCallbacks(t)
    \/ \E d \in DispatchInputs : SocketData(d, "none")
    \/ SocketLeftover("none")
    \/ \E rv \in HandlerReturns : HandlerReturn(rv, "none")
    \/ \E p \in PhaseMenu : AppSetPhase(p)

SpecDispatch == Init /\ [][NextDispatch]_vars

\* the registered tables whose handler ssh_packet_process is to call for type t
Applicable(t) ==
    LET list == session.packet_callbacks.elems
    IN  {a \in 1 .. Len(list) :
           /\ list[a].start <= t /\ t < list[a].start + list[a].n_callbacks
           /\ t \in list[a].callbacks}

\* some handler of the current packet returned USED
Used == \E h \in Events("handled") : log[h].f = "SSH_PACKET_USED"

\* exactly one UNIMPLEMENTED(recv_seq - 1) was sent for the packet logged at j
OneUnimplemented(j) ==
    \E u \in Events("unimpl") :
       /\ Events("unimpl") = {u}
       /\ log[u].w = WSub(log[j].w, W(1))
       /\ Events("send") = {u + 1}
       /\ log[u + 1].b = <<SSH2_MSG_UNIMPLEMENTED>> \o htonl(log[u].w)
       /\ Events("write") = {u + 2}
       /\ log[u + 2].b = UnimplementedPacket(log[u].w)

\* the calls made for the ALLOWED packet logged at j follow the list of tables:
\* in registration order, the applicable tables only, none of them skipped,
\* each after the one before returned NOT_USED, none after a USED, and all of
\* them once the dispatch has ended without a USED
WalksTables(j) ==
    LET list == session.packet_callbacks.elems
        apt == Applicable(log[j].type)
    IN  /\ \A i \in Events("call") :
              /\ i > j /\ log[i].type = log[j].type
              /\ log[i].n \in apt /\ log[i].f = list[log[i].n].id
              /\ \A a \in apt :
                    a < log[i].n =>
                       \E i2 \in Events("call"), h \in Events("handled") :
                          /\ i2 < h /\ h < i
                          /\ log[i2].n = a /\ log[h].n = a
                          /\ log[h].f = "SSH_PACKET_NOT_USED"
              /\ \A i2 \in Events("call") : log[i2].n = log[i].n => i2 = i
        /\ \A h \in Events("handled") :
              log[h].f = "SSH_PACKET_USED" => \A i \in Events("call") : i < h
        /\ (cb.pc # "handler" /\ ~Used) => {log[i].n : i \in Events("call")} = apt
        /\ cb.pc = "handler" => /\ Last.k = "call"
                                /\ Events("unimpl") = {} /\ Events("send") = {}

\* C6 as stated: an ALLOWED packet is dispatched along the tables in
\* registration order up to the first USED, and exactly one
\* UNIMPLEMENTED(recv_seq - 1) is sent if and only if no handler returned USED,
\* also when no table holds a handler or no table is registered.
C6_Original ==
    \A j \in Events("packet") :
       log[j].f = "ALLOWED" =>
          /\ WalksTables(j)
          /\ cb.pc # "handler" =>
                /\ ~Used => OneUnimplemented(j)
                /\ Used => Events("unimpl") = {} /\ Events("send") = {}

\* C6 as amended: the same, but UNIMPLEMENTED is sent if and only if a table was
\* registered and no handler returned USED; while no table was ever registered
\* (packet_callbacks is NULL) the packet is dropped and nothing is sent.
C6_Dispatch ==
    \A j \in Events("packet") :
       log[j].f = "ALLOWED" =>
          /\ WalksTables(j)
          /\ cb.pc # "handler" =>
                /\ (~Used /\ session.packet_callbacks.alloc) => OneUnimplemented(j)
                /\ (Used \/ ~session.packet_callbacks.alloc) =>
                      Events("unimpl") = {} /\ Events("send") = {}

\* IGNORE was dispatched to table A and then to the default table, both
\* returned NOT_USED, and UNIMPLEMENTED(0) was sent
C6_Witness ==
    /\ Len(log) = 9
    /\ log[2].k = "packet" /\ log[2].f = "ALLOWED" /\ log[2].type = SSH2_MSG_IGNORE
    /\ log[3].k = "call" /\ log[3].f = "A"
    /\ log[4].k = "handled" /\ log[4].f = "SSH_PACKET_NOT_USED"
    /\ log[5].k = "call" /\ log[5].f = "default"
    /\ log[6].k = "handled" /\ log[6].f = "SSH_PACKET_NOT_USED"
    /\ log[7].k = "unimpl" /\ log[7].w = W(0)
    /\ log[8].k = "send" /\ log[9].k = "write"

\* the step is a feed made by the running handler of the current packet
NestedFeedStep ==
    /\ cb.pc = "handler" /\ session.packet_state = "PROCESSING"
    /\ Len(log') = Len(log) + 1
    /\ log'[Len(log')].k = "nested"

\* C7: a feed that enters the callback while packet_state is PROCESSING (made
\* by the handler of the current packet) returns 0, calls no handler and
\* leaves packet_state, in_buffer, in_packet and recv_seq as they were; the
\* outer call then finishes its packet: it counts it once, returns to INIT
\* and goes on with the bytes left or returns.
C7_NestedFeed ==
    /\ [][NestedFeedStep =>
            /\ log'[Len(log')].n = 0
            /\ cb' = cb
            /\ session'.packet_state = session.packet_state
            /\ session'.in_buffer = session.in_buffer
            /\ session'.in_packet = session.in_packet
            /\ session'.recv_seq = session.recv_seq
            /\ Events("call")' = Events("call")]_vars
    /\ []((Events("nested") # {} /\ cb.pc # "handler") =>
            /\ session.recv_seq = log[2].w
            /\ session.packet_state = "INIT"
            /\ \/ cb.pc = "leftover" /\ cb.data = Drop(log[1].b, log[2].n)
               \/ cb.pc = "idle" /\ Last.k = "ret" /\ Last.f = "done")

\* the handler of an IGNORE packet fed a whole packet to the callback, got 0
\* back, and the outer call returned the length of its own packet
C7_Witness ==
    /\ \E n \in Events("nested") : log[n].b = IgnorePacket /\ log[n].n = 0
    /\ cb.pc = "idle"
    /\ Last.k = "ret" /\ Last.f = "done" /\ Last.n = Len(IgnorePacket)
    /\ session.recv_seq = W(1)

\* C8: a feed that enters the callback while session_state is ERROR, in any
\* packet_state and with any bytes, consumes nothing and returns 0, calls no
\* handler, sends nothing and leaves recv_seq as it was; and no step of the
\* packet layer (a feed, a handler return, a send: the steps that write the
\* log) moves session_state out of ERROR.
C8_ErrorIsAbsorbing ==
    /\ []((log # <<>> /\ log[1].k = "feed" /\ log[1].ph.session_state = "ERROR") =>
            /\ Len(log) = 2 /\ cb.pc = "idle"
            /\ Last.k = "ret" /\ Last.b = log[1].b
            /\ log[1].f = "idle" => Last.n = 0
            /\ Last.w = log[1].w
            /\ Last.ph.session_state = "ERROR")
    /\ [][(/\ session.session_state = "ERROR"
            /\ log' # <<>>
            /\ (log' # log \/ cb' # cb)) =>
             session'.session_state = "ERROR"]_vars

\* after a denied packet left packet_state at PROCESSING and session_state at
\* ERROR, a whole IGNORE packet was fed and nothing of it was consumed
C8_Witness ==
    /\ Len(log) = 2
    /\ log[1].k = "feed" /\ log[1].ph.session_state = "ERROR"
    /\ log[1].ps = "PROCESSING" /\ log[1].b = IgnorePacket
    /\ Last.k = "ret" /\ Last.n = 0
    /\ session.recv_seq = W(1)

(***************************************************************************)
(* SpecLoop: two sessions with matching configurations, seen from one: all *)
(* that the session writes is fed back to its own receive callback, so     *)
(* that its outgoing and incoming ciphers, MACs, compression streams and   *)
(* sequence numbers are those of the two ends of one connection.           *)
(***************************************************************************)
Cipher(blocksize, lenfield_blocksize, key) ==
    [blocksize |-> blocksize, lenfield_blocksize |-> lenfield_blocksize, key |-> key]

Crypto(cipher, hmac, compress) ==
    [NoCrypto EXCEPT !.active = TRUE, !.in_cipher = cipher, !.out_cipher = cipher,
                     !.in_hmac = hmac, !.out_hmac = hmac,
                     !.do_compress_in = compress, !.do_compress_out = compress]

LoopCryptos ==
    {NoCrypto,
     Crypto(Cipher(8, 0, 3), MacLen, FALSE),
     Crypto(Cipher(16, 16, 5), MacLen, TRUE),
     Crypto(Cipher(8, 4, 9), MacLen, TRUE)}

\* longest message body (the bytes after the type byte) sent in the loop
MaxBody == 8

\* the payload of the largest size the round trip is claimed for
BigPayload == [i \in 1 .. 32000 |-> IF i = 1 THEN SSH2_MSG_IGNORE ELSE i % 251]

LoopPayloads(s) ==
    {<<t>> \o [i \in 1 .. n |-> 40 + i] :
        t \in {SSH2_MSG_IGNORE, SSH2_MSG_CHANNEL_DATA}, n \in 0 .. MaxBody}
    \cup {<<250>>, <<0>>}
    \cup (IF s.current_crypto.active THEN {} ELSE {BigPayload})

PadBytes == {7, 200}

InitLoop ==
    /\ session \in
         {[SetPhase(packet_set_callbacks(NewSession(TRUE), default_packet_callbacks), p)
             EXCEPT !.current_crypto = cr] :
            p \in PhaseMenu \ {<<"ERROR", "DH_STATE_FINISHED", "SUCCESS",
                                 "SSH_AUTH_SERVICE_ACCEPTED", "NONE">>},
            cr \in LoopCryptos}
    /\ cb = IdleFrame
    /\ log = <<>>
    /\ tally = NoTally

NextLoop ==
    \/ \E p \in LoopPayloads(session), rnd \in PadBytes : LoopSend(p, rnd)
    \/ FeedWire
    \/ \E rv \in HandlerReturns : HandlerReturn(rv, "none")

SpecLoop == InitLoop /\ [][NextLoop]_vars

\* the log starts with a send, the write of its bytes, and the feed of these
\* bytes to a callback in state INIT of a session that is not in state ERROR
LoopedBack ==
    /\ Len(log) >= 3
    /\ log[1].k = "send" /\ log[2].k = "write" /\ log[3].k = "feed"
    /\ log[3].b = log[2].b
    /\ log[3].ps = "INIT" /\ log[3].ph.session_state # "ERROR"

\* C9: when the bytes written by one send of a payload P are fed to the
\* callback in state INIT, the callback assembles one packet from all of
\* these bytes, with in_packet.type = P[1] and in_buffer the rest of P, and
\* recv_seq is one more than before.
C9_RoundTrip ==
    LoopedBack =>
       /\ Len(log) >= 4 /\ log[4].k = "packet"
       /\ log[4].n = Len(log[2].b)
       /\ log[4].type = log[1].b[1]
       /\ log[4].b = Tail(log[1].b)
       /\ log[4].w = WAdd(log[3].w, W(1))

\* the second packet of a connection with a 16-byte cipher, a MAC and
\* compression came back: CHANNEL_DATA with a body of eight bytes
C9_Witness ==
    /\ LoopedBack
    /\ session.current_crypto.out_cipher.blocksize = 16
    /\ session.current_crypto.do_compress_in
    /\ log[1].w = W(1)
    /\ log[4].type = SSH2_MSG_CHANNEL_DATA /\ Len(log[4].b) = MaxBody
    /\ session.recv_seq = W(2)

\* C10 as stated: send_seq is the number of sends that returned SSH_OK and
\* recv_seq the number of packets received without a fatal error, whenever
\* no packet is being dispatched.
C10_Original ==
    cb.pc # "handler" =>
       /\ WInt(session.send_seq) = tally.sends_ok
       /\ WInt(session.recv_seq) = tally.recvs_ok

\* C10 as amended: send_seq is the number of sends that reached the socket
\* write, whatever the write and the send returned, and recv_seq the number
\* of packets that were assembled and handed to the filter, whatever the
\* filter returned; no step advances either counter by more than one, and
\* none moves a counter back.
C10_SequenceCounts ==
    /\ [](/\ WInt(session.send_seq) = tally.sends_written
          /\ WInt(session.recv_seq) = tally.recvs_framed)
    /\ [][/\ session'.send_seq \in {session.send_seq, WAdd(session.send_seq, W(1))}
          /\ session'.recv_seq \in {session.recv_seq, WAdd(session.recv_seq, W(1))}]_vars

\* a send whose write failed and a packet the filter denied were both counted
C10_Witness ==
    /\ session.send_seq = W(1) /\ tally.sends_ok = 0 /\ tally.sends_written = 1
    /\ session.recv_seq = W(1) /\ tally.recvs_ok = 0 /\ tally.recvs_framed = 1
    /\ session.session_state = "ERROR"
    /\ cb.pc = "idle"

(***************************************************************************)
(* SpecBatch: an authenticated session with the default handlers is fed    *)
(* several well-framed, accepted packets in one call of the callback, with *)
(* or without the beginning of one more packet behind them.                *)
(***************************************************************************)
RECURSIVE Flat(_)
Flat(ps) == IF ps = <<>> THEN <<>> ELSE Head(ps) \o Flat(Tail(ps))

RECURSIVE SumLen(_)
SumLen(ps) == IF ps = <<>> THEN 0 ELSE Len(Head(ps)) + SumLen(Tail(ps))

DataPacket == Framed(<<SSH2_MSG_CHANNEL_DATA, 5>>, 4)

Batches ==
    {<<IgnorePacket, IgnorePacket>>,
     <<IgnorePacket, DataPacket>>,
     <<DataPacket, IgnorePacket, DataPacket>>,
     <<IgnorePacket, IgnorePacket, IgnorePacket>>}

BatchTails == {<<>>, Take(IgnorePacket, 4), Take(IgnorePacket, 8), Take(DataPacket, 10)}

BatchFeeds == [pk : Batches, tail : BatchTails]

InitBatch ==
    /\ session = InPhase(TRUE, "AUTHENTICATED", "DH_STATE_FINISHED", "SUCCESS", "NONE")
    /\ cb = IdleFrame
    /\ log = <<>>
    /\ tally = NoTally

NextBatch ==
    \/ \E f \in BatchFeeds : SocketData(Flat(f.pk) \o f.tail, "none")
    \/ SocketLeftover("none")
    \/ \E rv \in HandlerReturns : HandlerReturn(rv, "none")

SpecBatch == InitBatch /\ [][NextBatch]_vars

\* the type byte of a packet without crypto
TypeOf(p) == p[6]

\* C11: when one feed holds k >= 2 complete, well-framed, accepted packets,
\* their handlers run in wire order inside that one call (while the handler of
\* packet d runs, exactly the d - 1 packets before it were consumed and
\* counted), recv_seq grows by k, and the value returned is the total length
\* of the k packets, the bytes of an incomplete last packet staying unconsumed.
C11_BatchInOrder ==
    \A f \in BatchFeeds :
       cb.top = Flat(f.pk) \o f.tail =>
          LET k == Len(f.pk)
              d == cb.depth
          IN  /\ cb.pc = "handler" =>
                    /\ d \in 1 .. k
                    /\ session.in_packet.type = TypeOf(f.pk[d])
                    /\ cb.acc = SumLen(SubSeq(f.pk, 1, d - 1))
                    /\ cb.processed = Len(f.pk[d])
                    /\ session.recv_seq = WAdd(cb.seq0, W(d))
              /\ cb.pc = "leftover" =>
                    /\ d \in 1 .. k
                    /\ cb.acc = SumLen(SubSeq(f.pk, 1, d))
                    /\ cb.data = Flat(SubSeq(f.pk, d + 1, k)) \o f.tail
                    /\ session.recv_seq = WAdd(cb.seq0, W(d))
              /\ (cb.pc = "idle" /\ log # <<>>) =>
                    /\ Last.k = "ret"
                    /\ Last.n = SumLen(f.pk)
                    /\ Last.b = f.tail
                    /\ session.recv_seq = WAdd(cb.seq0, W(k))

\* three packets and the first 8 bytes of a fourth were fed in one call: the
\* call returned the 38 bytes of the three and waits in SIZEREAD
C11_Witness ==
    /\ cb.pc = "idle" /\ log # <<>> /\ Last.k = "ret"
    /\ cb.top = DataPacket \o IgnorePacket \o DataPacket \o Take(IgnorePacket, 8)
    /\ Last.n = 38 /\ Last.b = Take(IgnorePacket, 8)
    /\ session.recv_seq = W(3)
    /\ session.packet_state = "SIZEREAD"

(***************************************************************************)
(* SpecWire: the connection of SpecLoop with a peer that may also send     *)
(* what it should not: every packet the session writes comes back as it is *)
(* or changed on its way (the cipher of the model works byte by byte, so a *)
(* change of a byte of the wire is a change of that byte of the cleartext) *)
(* and the session's own sends may fail.                                   *)
(***************************************************************************)
WirePayloads ==
    {<<SSH2_MSG_IGNORE>>, <<SSH2_MSG_CHANNEL_DATA, 5, 6>>, <<250>>, <<SSH2_MSG_KEXDH_REPLY>>}

\* the peer compresses and the session does not expect it, and the reverse
WireCryptos ==
    {NoCrypto,
     Crypto(Cipher(8, 0, 3), MacLen, FALSE),
     Crypto(Cipher(16, 16, 5), MacLen, TRUE),
     [Crypto(Cipher(8, 0, 3), MacLen, TRUE) EXCEPT !.do_compress_out = FALSE]}

WireKinds == {"none", "twice", "trunc", "mac", "len", "huge", "zero", "pad",
              "short", "tail", "body", "part"}

\* what arrives of the bytes w written under the cipher key `key`
Tamper(kind, w, key) ==
    CASE kind = "none"  -> w
      [] kind = "twice" -> w \o w
      [] kind = "trunc" -> Take(w, 10)
      [] kind = "mac"   -> [w EXCEPT ![Len(w)] = (@ + 1) % 256]
      [] kind = "len"   -> [w EXCEPT ![4] = (@ + 1) % 256] \o <<0>>
      [] kind = "huge"  -> [w EXCEPT ![2] = (@ + 1) % 256]
      [] kind = "zero"  -> <<key, key, key, key>> \o Drop(w, 4)
      [] kind = "pad"   -> [w EXCEPT ![5] = (255 + key) % 256]
      [] kind = "short" -> Take(w, 7)
      [] kind = "tail"  -> w \o Take(w, 5)
      [] kind = "body"  -> [w EXCEPT ![Len(w) - MacLen] = (@ + 1) % 256]
      [] kind = "part"  -> Take(w, Len(w) - 1)

WireFaults == {"none", "compress", "prng", "header"}

InitWire ==
    /\ session \in
         {[InPhase(TRUE, "AUTHENTICATED", "DH_STATE_FINISHED", "SUCCESS", "NONE")
             EXCEPT !.current_crypto = cr] : cr \in WireCryptos}
    /\ cb = IdleFrame
    /\ log = <<>>
    /\ tally = NoTally

\* the layers above send while nothing they wrote is on its way; the send
\* may fail
WireSend(payload, fault) ==
    /\ session.send_seq = session.recv_seq
    /\ AppSend(payload, fault, 7)

\* the packet on its way arrives; while the callback waits for the rest of it
\* the socket presents the packet unchanged, whole or again in part
WireFeed(kind) ==
    /\ cb.pc = "idle"
    /\ session.send_seq = WAdd(session.recv_seq, W(1))
    /\ WInt(session.recv_seq) < MaxSend
    /\ kind \in {"none", "trunc", "short", "part"} \/ session.packet_state = "INIT"
    /\ \E w \in 2 .. Len(log) :
          /\ log[w].k = "write" /\ log[w - 1].k = "send"
          /\ \A v \in w + 1 .. Len(log) : log[v].k # "write"
          /\ Become(LogAfter(<<log[w - 1], log[w]>>,
                             callback_level(Here,
                                            Tamper(kind, log[w].b,
                                                   session.current_crypto.in_cipher.key),
                                            "none", 7)))

NextWire ==
    \/ \E p \in WirePayloads, f \in Faults(WireFaults) : WireSend(p, f)
    \/ \E kind \in WireKinds : WireFeed(kind)
    \/ SocketLeftover("none")
    \/ \E rv \in HandlerReturns : HandlerReturn(rv, "none")

SpecWire == InitWire /\ [][NextWire]_vars

\* the entry of the current level of the callback in the log
LevelFeed == IF log[1].k = "feed" THEN log[1] ELSE log[3]

\* a level of the callback entered in state INIT or SIZEREAD has returned
LevelReturned ==
    /\ Len(log) >= 2 /\ Last.k = "ret"
    /\ (log[1].k = "feed" \/ (Len(log) >= 4 /\ log[3].k = "feed"))

\* the block that holds the length field, and the length of the MAC
InLenfield ==
    LET crypto == session.current_crypto
    IN  IF ~crypto.active THEN 8
        ELSE IF crypto.in_cipher.lenfield_blocksize = 0 THEN crypto.in_cipher.blocksize
        ELSE crypto.in_cipher.lenfield_blocksize

InMacsize ==
    IF session.current_crypto.active THEN hmac_digest_len(session.current_crypto.in_hmac)
    ELSE 0

\* the length of the packet at the front of data: its length field says so
WholeLen(data) ==
    4 + WInt(ntohl(ssh_packet_decrypt_len(session, data, 4))) + InMacsize

\* what the level itself reported as processed: the value returned less the
\* bytes the levels before it had consumed
LevelProcessed == Last.n - (Len(cb.top) - Len(LevelFeed.b))

RunPayload(n) == [i \in 1 .. n |-> SSH2_MSG_IGNORE]

\* lengths of the runs sent: below and above MAX_PACKET_LEN
RunLengths == {6, 25, 100, 25599, 25600, 35000, 35001, 40000, 51199, 51200, 60000}

InflatePayloads ==
    {<<SSH2_MSG_IGNORE>>, <<SSH2_MSG_CHANNEL_DATA, 5>>} \cup {RunPayload(n) : n \in RunLengths}

InitInflate ==
    /\ session \in
         {[InPhase(TRUE, "AUTHENTICATED", "DH_STATE_FINISHED", "SUCCESS", "NONE")
             EXCEPT !.current_crypto = cr] :
            cr \in {Crypto(Cipher(16, 16, 5), MacLen, TRUE),
                    Crypto(Cipher(8, 0, 3), 0, TRUE)}}
    /\ cb = IdleFrame
    /\ log = <<>>
    /\ tally = NoTally

NextInflate ==
    \/ \E p \in InflatePayloads : LoopSend(p, 7)
    \/ FeedWire
    \/ \E rv \in HandlerReturns : HandlerReturn(rv, "none")

SpecInflate == InitInflate /\ [][NextInflate]_vars

\* the last operation was a send that failed before its write
SendFailed == log # <<>> /\ Last.k = "send" /\ Last.f = "SSH_ERROR"

\* C13: every error other than a short read leaves session_state = ERROR
\* when the operation returns: a call of the callback that ends otherwise
\* than by a short read or the end of a packet, and a send that fails in the
\* compression, the PRNG or the allocation of the header.
C13_ErrorsAreFatal ==
    /\ (LevelReturned /\ Last.f \notin {"short", "partial", "done"})
          => session.session_state = "ERROR"
    /\ SendFailed => session.session_state = "ERROR"

\* C14: an incoming compressed packet whose decompressed form (the payload
\* its sender compressed) is longer than MAX_PACKET_LEN makes the callback
\* fail: session_state becomes ERROR, recv_seq is not incremented and no
\* handler is called; so no handler is ever given an in_buffer longer than
\* MAX_PACKET_LEN.
C14_DecompressionCap ==
    /\ (LoopedBack /\ session.current_crypto.do_compress_in
           /\ Len(log[1].b) > MAX_PACKET_LEN) =>
          /\ session.session_state = "ERROR"
          /\ session.recv_seq = log[3].w
          /\ \A i \in 4 .. Len(log) : log[i].k \notin {"packet", "call"}
    /\ \A i \in 1 .. Len(log) :
          log[i].k = "call" => Len(log[i].b) <= MAX_PACKET_LEN

(***************************************************************************)
(* SpecPad: sessions of every configuration of SpecLoop send payloads of   *)
(* every length up to MaxPad.                                              *)
(***************************************************************************)
\* longest payload sent
MaxPad == 18

PadPayloads ==
    {<<SSH2_MSG_IGNORE>> \o [i \in 1 .. n - 1 |-> 40 + i] : n \in 1 .. MaxPad}
    \cup {RunPayload(MaxPad + 7)}

NextPad == \E p \in PadPayloads, rnd \in PadBytes : AppSend(p, "none", rnd)

SpecPad == InitLoop /\ [][NextPad]_vars

\* the last operation was a send, and the socket took its bytes
Wrote == Len(log) >= 2 /\ Last.k = "write" /\ log[Len(log) - 1].k = "send"

\* the cleartext of the packet written last, without its MAC
WrittenPacket ==
    LET crypto == session.current_crypto
        mac == IF crypto.active THEN hmac_digest_len(crypto.out_hmac) ELSE 0
        body == Take(Last.b, Len(Last.b) - mac)
    IN  IF crypto.active THEN cipher_decrypt(crypto.out_cipher, body) ELSE body

\* the length of the payload sent last once compressed
CompressedLen ==
    LET payload == log[Len(log) - 1].b
    IN  IF session.current_crypto.active /\ session.current_crypto.do_compress_out
        THEN Len(deflate(0, payload)) ELSE Len(payload)

OutBlocksize ==
    IF session.current_crypto.active THEN session.current_crypto.out_cipher.blocksize ELSE 8

\* the length field of the outgoing cipher covers no block of its own or
\* a whole one
NonAEAD ==
    \/ ~session.current_crypto.active
    \/ session.current_crypto.out_cipher.lenfield_blocksize \in {0, OutBlocksize}

\* C15: in every configuration whose lenfield_blocksize is 0 or the block
\* size, the packet a send builds has padding_length >= 4 and
\* (final_length + 4) mod blocksize = 0, with final_length = length of the
\* compressed payload + padding_length + 1; the padding is the smallest such
\* value, so it lies in 4 .. blocksize + 3.
C15_Padding ==
    (Wrote /\ NonAEAD) =>
       LET final_length == WInt(ntohl(Take(WrittenPacket, 4)))
           padding_length == WrittenPacket[5]
       IN  /\ Len(WrittenPacket) = 4 + final_length
           /\ final_length = CompressedLen + padding_length + 1
           /\ padding_length >= 4
           /\ (final_length + 4) % OutBlocksize = 0
           /\ padding_length - OutBlocksize < 4
           /\ padding_length \in 4 .. OutBlocksize + 3

\* a payload of 11 bytes was sent under the 16-byte cipher with compression:
\* 13 bytes once compressed, 14 bytes of padding, final_length = 28
C15_Witness ==
    /\ Wrote /\ NonAEAD
    /\ OutBlocksize = 16
    /\ Len(log[Len(log) - 1].b) = 11
    /\ WrittenPacket[5] = 14
    /\ WInt(ntohl(Take(WrittenPacket, 4))) = 28

(***************************************************************************)
(* SpecKex: a session of either role, in any session state and any state   *)
(* of the key exchange, with the default handlers registered, receives one *)
(* key-exchange packet.                                                    *)
(***************************************************************************)
InitKex ==
    /\ session \in {InPhase(c, ss, dh, "NONE", "NONE") :
                      c \in BOOLEAN, ss \in SessionStates, dh \in DhStates}
    /\ cb = IdleFrame
    /\ log = <<>>
    /\ tally = NoTally

KexTypes == {SSH2_MSG_KEXINIT, SSH2_MSG_NEWKEYS, SSH2_MSG_KEXDH_INIT, SSH2_MSG_KEXDH_REPLY}

\* the socket delivers the first packet of the run
FirstPacket(type) ==
    /\ log = <<>>
    /\ SocketData(Framed(<<type>>, 4), "none")

NextKex ==
    \/ \E t \in KexTypes : FirstPacket(t)
    \/ \E rv \in HandlerReturns : HandlerReturn(rv, "none")

SpecKex == InitKex /\ [][NextKex]_vars

\* the filter gave packet j of the log the answer allow(cond), and no handler
\* runs or ran for a packet it denied
Gate(j, cond) ==
    /\ log[j].f = allow(cond)
    /\ ~cond => (Events("call") = {} /\ cb.pc # "handler")

\* C16 as stated: KEXDH_INIT is ALLOWED if and only if the session is a
\* server in session state DH with dh state INIT; a client in that state
\* gets DENIED.
C16_KexdhInitGate ==
    \A j \in Events("packet") :
       log[j].type = SSH2_MSG_KEXDH_INIT =>
          Gate(j, /\ log[j].ph.server /\ ~log[j].ph.client
                  /\ log[j].ph.session_state = "DH"
                  /\ log[j].ph.dh_handshake_state = "DH_STATE_INIT")

\* C18: for both roles KEXINIT is ALLOWED iff session_state is AUTHENTICATED
\* or INITIAL_KEX and dh state is INIT or FINISHED, NEWKEYS iff session_state
\* is DH and dh state NEWKEYS_SENT, KEXDH_REPLY iff session_state is DH and
\* dh state INIT_SENT; otherwise the packet is DENIED and no handler is called.
C18_KexGate ==
    \A j \in Events("packet") :
       LET ph == log[j].ph
       IN  /\ log[j].type = SSH2_MSG_KEXINIT =>
                 Gate(j, /\ ph.session_state \in {"AUTHENTICATED", "INITIAL_KEX"}
                         /\ ph.dh_handshake_state \in {"DH_STATE_INIT",
                                                        "DH_STATE_FINISHED"})
           /\ log[j].type = SSH2_MSG_NEWKEYS =>
                 Gate(j, /\ ph.session_state = "DH"
                         /\ ph.dh_handshake_state = "DH_STATE_NEWKEYS_SENT")
           /\ log[j].type = SSH2_MSG_KEXDH_REPLY =>
                 Gate(j, /\ ph.session_state = "DH"
                         /\ ph.dh_handshake_state = "DH_STATE_INIT_SENT")

\* a KEXINIT that came in session state AUTHENTICATING with the key exchange
\* finished was denied: the callback returned with the session in ERROR
C18_Witness ==
    /\ log # <<>> /\ Last.k = "ret" /\ Last.f = "DENIED"
    /\ \E j \in Events("packet") :
          /\ log[j].type = SSH2_MSG_KEXINIT
          /\ log[j].ph.session_state = "AUTHENTICATING"
          /\ log[j].ph.dh_handshake_state = "DH_STATE_FINISHED"
    /\ session.session_state = "ERROR"

(***************************************************************************)
(* SpecReply: a session of either role, in any session state, with a       *)
(* global request and a request on its channel in any state, receives one  *)
(* reply to a request.                                                     *)
(***************************************************************************)
InitReply ==
    /\ session \in
         {[InPhase(c, ss, "DH_STATE_FINISHED", "SUCCESS", greq)
             EXCEPT !.channel_request_state = creq] :
            c \in BOOLEAN, ss \in SessionStates,
            greq \in ChannelReqStates, creq \in ChannelReqStates}
    /\ cb = IdleFrame
    /\ log = <<>>
    /\ tally = NoTally

ReplyTypes == {SSH2_MSG_REQUEST_SUCCESS, SSH2_MSG_REQUEST_FAILURE,
               SSH2_MSG_CHANNEL_SUCCESS, SSH2_MSG_CHANNEL_FAILURE}

NextReply ==
    \/ \E t \in ReplyTypes : FirstPacket(t)
    \/ \E rv \in HandlerReturns : HandlerReturn(rv, "none")

SpecReply == InitReply /\ [][NextReply]_vars

\* C17: CHANNEL_SUCCESS and CHANNEL_FAILURE are ALLOWED only when
\* session_state = AUTHENTICATED and the request_state of the channel is
\* PENDING; when no request is pending on the channel the packet is DENIED
\* and its handler is not called.
C17_ChannelReplyGate ==
    \A j \in Events("packet") :
       log[j].type \in {SSH2_MSG_CHANNEL_SUCCESS, SSH2_MSG_CHANNEL_FAILURE} =>
          /\ log[j].f = "ALLOWED" =>
                /\ log[j].ph.session_state = "AUTHENTICATED"
                /\ session.channel_request_state = "PENDING"
          /\ session.channel_request_state # "PENDING" =>
                /\ log[j].f = "DENIED"
                /\ Events("call") = {} /\ cb.pc # "handler"

(***************************************************************************)
(* SpecService: a session of either role, in any session state and any     *)
(* state of the key exchange, of the authentication and of the service     *)
(* request, with the default handlers registered, receives one packet of   *)
(* the service and user authentication protocols.                          *)
(***************************************************************************)
InitService ==
    /\ session \in
         {[InPhase(c, ss, dh, auth, "NONE") EXCEPT !.auth_service_state = svc] :
            c \in BOOLEAN, ss \in SessionStates, dh \in DhStates,
            auth \in AuthStates, svc \in AuthServiceStates}
    /\ cb = IdleFrame
    /\ log = <<>>
    /\ tally = NoTally

ServiceTypes ==
    {SSH2_MSG_SERVICE_REQUEST, SSH2_MSG_SERVICE_ACCEPT, SSH2_MSG_EXT_INFO,
     SSH2_MSG_USERAUTH_REQUEST, SSH2_MSG_USERAUTH_FAILURE, SSH2_MSG_USERAUTH_BANNER,
     SSH2_MSG_USERAUTH_PK_OK, SSH2_MSG_USERAUTH_INFO_RESPONSE,
     SSH2_MSG_USERAUTH_GSSAPI_MIC}

NextService ==
    \/ \E t \in ServiceTypes : FirstPacket(t)
    \/ \E rv \in HandlerReturns : HandlerReturn(rv, "none")

SpecService == InitService /\ [][NextService]_vars

C20_ServiceAuthGate ==
    \A j \in Events("packet") :
       LET ph == log[j].ph
           authenticating == ph.session_state = "AUTHENTICATING"
           dh_finished == ph.dh_handshake_state = "DH_STATE_FINISHED"
       IN  /\ log[j].type = SSH2_MSG_SERVICE_ACCEPT =>
                 Gate(j, /\ ph.session_state \in {"AUTHENTICATING", "AUTHENTICATED"}
                         /\ dh_finished
                         /\ ph.auth_service_state = "SSH_AUTH_SERVICE_SENT")
           /\ log[j].type = SSH2_MSG_EXT_INFO => Gate(j, authenticating /\ dh_finished)
           /\ log[j].type = SSH2_MSG_USERAUTH_BANNER => Gate(j, authenticating)
           /\ log[j].type = SSH2_MSG_USERAUTH_PK_OK =>
                 Gate(j, /\ authenticating
                         /\ ph.auth_state \in {"KBDINT_SENT", "PUBKEY_OFFER_SENT",
                                                "GSSAPI_REQUEST_SENT"})
           /\ log[j].type = SSH2_MSG_USERAUTH_INFO_RESPONSE =>
                 Gate(j, authenticating /\ ph.auth_state \in {"INFO", "GSSAPI_TOKEN"})

\* the handler of SERVICE_ACCEPT runs in a server session that is
\* AUTHENTICATED and whose service request is in state SENT
C20_Witness ==
    /\ cb.pc = "handler"
    /\ session.in_packet.type = SSH2_MSG_SERVICE_ACCEPT
    /\ session.server
    /\ session.session_state = "AUTHENTICATED"
    /\ session.auth_service_state = "SSH_AUTH_SERVICE_SENT"
    /\ \E j \in Events("packet") : log[j].f = "ALLOWED"

\* the payload field of a packet received without crypto: the bytes between
\* the padding-length byte and the padding
PlainPayload(wire) == SubSeq(wire, 6, 4 + WInt(ntohl(wire)) - wire[5])

\* C24: when a handler is called for a packet, in_buffer is the payload the
\* peer sent (decrypted and decompressed) without its type byte, and
\* in_packet.type is that byte; without crypto these are the bytes of the
\* wire between the padding-length byte and the padding.  For a payload of
\* one type byte that has a handler (the 16 bytes 00 00 00 0c 0a 02 and ten
\* zeros among them) the handler is called once with an empty in_buffer,
\* recv_seq is one more than before and the callback returns the length of
\* the packet, 16 for these bytes.
C24_HandlerSeesPayload ==
    LoopedBack =>
       LET payload == log[1].b
           wire == log[3].b
       IN  /\ \A j \in Events("call") :
                 /\ log[j].type = payload[1]
                 /\ log[j].b = Tail(payload)
                 /\ ~session.current_crypto.active =>
                       <<log[j].type>> \o log[j].b = PlainPayload(wire)
           /\ cb.pc = "handler" =>
                 /\ session.in_buffer = Tail(payload)
                 /\ session.in_packet.type = payload[1]
           /\ (Len(payload) = 1 /\ Events("call") # {}) =>
                 /\ Cardinality(Events("call")) = 1
                 /\ \A j \in Events("call") : log[j].b = <<>>
                 /\ session.recv_seq = WAdd(log[3].w, W(1))
                 /\ Last.k = "ret" => Last.n = Len(wire)
           /\ wire = IgnorePacket =>
                 /\ Events("call") = {5} /\ log[5].type = SSH2_MSG_IGNORE
                 /\ log[5].b = <<>>
                 /\ log[3].w = W(0) => session.recv_seq = W(1)
                 /\ Last.k = "ret" => Last.n = 16

\* the 16 bytes of the IGNORE packet were the first of the connection: the
\* handler was called, returned, and the callback returned 16
C24_Witness ==
    /\ LoopedBack /\ log[3].b = IgnorePacket
    /\ Len(IgnorePacket) = 16
    /\ Events("call") = {5} /\ Events("handled") = {6}
    /\ Last.k = "ret" /\ Last.n = 16 /\ Last.b = <<>>
    /\ session.recv_seq = W(1) /\ session.in_buffer = <<>>

\* the step enters a level of the callback: the socket delivers bytes, or
\* the callback calls itself on the bytes left
FeedStep ==
    /\ cb.pc \in {"idle", "leftover"}
    /\ log' # log
    /\ log' # <<>>
    /\ log'[1].k = "feed" \/ (Len(log') >= 3 /\ log'[3].k = "feed")

\* C23: a call of the callback in state INIT with fewer bytes than the block
\* of the length field (8 without crypto, else lenfield_blocksize of the
\* incoming cipher, or its blocksize when that is 0) returns 0 for these
\* bytes, calls no handler, sends nothing, and leaves the session - with
\* packet_state, in_buffer, in_packet, recv_seq and session_state - as it was.
C23_ShortFeed ==
    [][(FeedStep /\ session.packet_state = "INIT" /\ LevelFeed'.n < InLenfield) =>
          /\ Last'.k = "ret" /\ LevelProcessed' = 0
          /\ cb'.pc = "idle"
          /\ Events("packet")' = {} /\ Events("call")' = {} /\ Events("unimpl")' = {}
          /\ session'.packet_state = session.packet_state
          /\ session'.in_buffer = session.in_buffer
          /\ session'.in_packet = session.in_packet
          /\ session'.recv_seq = session.recv_seq
          /\ session'.session_state = session.session_state
          /\ session' = session]_vars

\* ten bytes arrived at a session whose cipher reads the length from a block
\* of 16: the callback returned 0 and waits in INIT
C23_Witness ==
    /\ LevelReturned /\ Last.f = "short"
    /\ LevelFeed.n = 10 /\ InLenfield = 16
    /\ Last.n = 0 /\ Last.b = LevelFeed.b
    /\ session.packet_state = "INIT" /\ session.session_state = "AUTHENTICATED"
    /\ session.recv_seq = W(0) /\ session.send_seq = W(1)

\* the length field of the packet at the front of data, as session s reads it
WireLen(s, data) == ntohl(ssh_packet_decrypt_len(s, data, 4))

\* data holds the whole of a packet whose length field passes the checks
WholePacket(s, data) ==
    /\ Len(data) >= InLenfield
    /\ packet_len_check(WireLen(s, data), InLenfield) = "ok"
    /\ Len(data) >= 4 + WInt(WireLen(s, data)) + InMacsize

\* the cleartext of that packet, and the MAC that follows it on the wire
WireClear(s, data) ==
    cipher_decrypt(s.current_crypto.in_cipher, Take(data, 4 + WInt(WireLen(s, data))))

WireMac(s, data) ==
    SubSeq(data, 4 + WInt(WireLen(s, data)) + 1, 4 + WInt(WireLen(s, data)) + InMacsize)

\* the part behind the block of the length field is a whole number of blocks
Decryptable(s, data) ==
    (4 + WInt(WireLen(s, data)) - InLenfield) % s.current_crypto.in_cipher.blocksize = 0

\* the MAC on the wire is the digest of recv_seq and the whole cleartext packet
MacVerifies(s, data) ==
    WireMac(s, data) = hmac_digest(s.current_crypto.in_hmac, s.recv_seq, WireClear(s, data))

\* C25: with crypto active, a level of the callback that holds a whole packet
\* rejects it at the decryption when the part behind the length block is not
\* a whole number of cipher blocks, else at the MAC check when the MAC is not
\* that of recv_seq and the whole cleartext packet (length block included):
\* session_state becomes ERROR, recv_seq and the crypto context with its
\* decompression stream stay as they were, and no packet is filtered,
\* dispatched or answered.  Only a packet whose MAC verified gets to the
\* padding check, the decompression, the count in recv_seq, the filter and
\* the handlers.
C25_MacBeforeUse ==
    [][(/\ FeedStep
        /\ session.current_crypto.active
        /\ session.session_state # "ERROR"
        /\ WholePacket(session, LevelFeed'.b)) =>
          LET data == LevelFeed'.b
              decok == Decryptable(session, data)
              macok == MacVerifies(session, data)
              at == Last'.f
          IN  /\ ~decok =>
                    /\ Last'.k = "ret" /\ at = "decrypt"
              /\ (decok /\ ~macok) =>
                    /\ Last'.k = "ret" /\ at = "hmac"
              /\ ~(decok /\ macok) =>
                    /\ session'.session_state = "ERROR"
                    /\ session'.recv_seq = session.recv_seq
                    /\ session'.current_crypto = session.current_crypto
                    /\ session'.send_seq = session.send_seq
                    /\ Events("packet")' = {} /\ Events("call")' = {}
                    /\ Events("unimpl")' = {}
                    /\ cb'.pc = "idle"
              /\ (decok /\ macok) =>
                    /\ ~(Last'.k = "ret" /\ at \in {"decrypt", "hmac"})
                    /\ \/ /\ Last'.k = "ret"
                          /\ at \in {"padding_short", "padding_invalid", "decompress"}
                          /\ session'.recv_seq = session.recv_seq
                          /\ session'.session_state = "ERROR"
                       \/ /\ Events("packet")' # {}
                          /\ \A j \in Events("packet")' :
                                log'[j].w = WAdd(session.recv_seq, W(1))]_vars

\* the padding-length byte of an encrypted packet was changed on the wire to
\* read 255: the packet failed the MAC check, not the padding check
C25_Witness ==
    /\ LevelReturned /\ Last.f = "hmac"
    /\ session.current_crypto.active
    /\ WInt(WireLen(session, LevelFeed.b)) + 4 + MacLen = Len(LevelFeed.b)
    /\ WireClear(session, LevelFeed.b)[5] = 255
    /\ session.session_state = "ERROR" /\ session.recv_seq = W(0)
    /\ Events("packet") = {}

\* the callback was entered in state INIT, without crypto, with a whole
\* well-framed packet that has no payload: length field ok, a multiple of 8
\* bytes, padding of 4 or more within the packet, and nothing between the
\* padding-length byte and the padding
EmptyPayloadFed ==
    /\ log # <<>> /\ LengthRead(log[1])
    /\ ~session.current_crypto.active
    /\ WholePacket(session, log[1].b)
    /\ log[1].b[5] = WInt(WireLen(session, log[1].b)) - 1
    /\ log[1].b[5] >= 4
    /\ Len(log[1].b) % 8 = 0

\* C26 as stated: a well-framed packet whose payload is empty, so that no
\* type byte can be read, is fatal: session_state is ERROR once the callback
\* is through with it, and no handler is called and no UNIMPLEMENTED sent.
C26_EmptyPayloadIsFatal ==
    EmptyPayloadFed =>
       /\ session.session_state = "ERROR"
       /\ Events("call") = {} /\ Events("unimpl") = {} /\ Events("send") = {}

\* C27 as stated: a whole packet (no crypto) is handed to the filter only if
\* its padding_length is at least 4 and at most the number of bytes after
\* the padding-length byte; a packet that breaks either rule is rejected:
\* the callback returns with session_state = ERROR and recv_seq as it was.
C27_PaddingInvariants ==
    (/\ log # <<>> /\ LengthRead(log[1])
     /\ ~session.current_crypto.active
     /\ WholePacket(session, log[1].b)) =>
       LET padding == log[1].b[5]
           rest == WInt(WireLen(session, log[1].b)) - 1
       IN  /\ Events("packet") # {} => (padding >= 4 /\ padding <= rest)
           /\ (padding < 4 \/ padding > rest) =>
                 /\ Events("packet") = {}
                 /\ Last.k = "ret" /\ Last.ph.session_state = "ERROR"
                 /\ Last.w = log[1].w

\* the exits of the callback through the label error:
ErrorExits == {"session_error", "len_too_high", "len_negative", "decrypt", "hmac",
               "padding_short", "padding_invalid", "decompress", "DENIED"}

C29_BackToInit ==
    /\ (cb.pc = "idle" /\ log # <<>> /\ Last.k = "ret" /\ Events("packet") # {}) =>
          session.packet_state = "INIT"
    /\ session.packet_state = "PROCESSING" => cb.pc = "handler"

(***************************************************************************)
(* SpecFilter: a session of either role in every combination of the states *)
(* the filter consults, with the default handlers registered, receives one *)
(* packet.  In some of the authenticated sessions a request is pending on  *)
(* the channel.                                                            *)
(***************************************************************************)
InitFilter ==
    /\ session \in
         {[InPhase(c, ss, dh, auth, greq) EXCEPT !.auth_service_state = svc] :
            c \in BOOLEAN, ss \in SessionStates, dh \in DhStates,
            auth \in AuthStates, svc \in AuthServiceStates, greq \in ChannelReqStates}
         \cup
         {[InPhase(c, "AUTHENTICATED", dh, auth, greq)
             EXCEPT !.auth_service_state = svc, !.channel_request_state = "PENDING"] :
            c \in BOOLEAN, dh \in DhStates,
            auth \in AuthStates, svc \in AuthServiceStates, greq \in ChannelReqStates}
    /\ cb = IdleFrame
    /\ log = <<>>
    /\ tally = NoTally

FilterTypes == {0, SSH2_MSG_DISCONNECT, SSH2_MSG_DEBUG, 8, SSH2_MSG_KEX_DH_GEX_REPLY,
                SSH2_MSG_USERAUTH_GSSAPI_ERROR, SSH2_MSG_CHANNEL_SUCCESS, 250}

NextFilter ==
    \/ \E t \in FilterTypes : FirstPacket(t)
    \/ \E rv \in HandlerReturns : HandlerReturn(rv, "none")

SpecFilter == InitFilter /\ [][NextFilter]_vars

\* the filter's answer for a packet of type t in session s
FilterOf(s, t) == ssh_packet_incoming_filter([s EXCEPT !.in_packet.type = t])

\* no packet has arrived yet
BeforePacket == cb.pc = "idle" /\ log = <<>>

\* the types the filter allows in every phase, and the types it has no case for
AlwaysAllowed == (1 .. 4) \cup (32 .. 34) \cup (63 .. 65)
NoRow == {0} \cup (8 .. 19) \cup (22 .. 29) \cup (35 .. 49) \cup (54 .. 59) \cup {62}
         \cup (67 .. 79) \cup (83 .. 89) \cup (101 .. 255)

\* C21: in every session phase and for both roles the filter answers ALLOWED
\* for DISCONNECT, IGNORE, UNIMPLEMENTED, DEBUG and for the types 32-34 and
\* 63-65, and UNKNOWN for every type it has no case for (0, 8-19, 22-29,
\* 35-49, 54-59, 62, 67-79, 83-89, 101-255); a packet of such a type that
\* reaches the filter gets that answer.
C21_AlwaysAllowedAndUnknown ==
    /\ BeforePacket =>
          \A t \in 0 .. 255 :
             /\ t \in AlwaysAllowed => FilterOf(session, t) = "ALLOWED"
             /\ t \in NoRow => FilterOf(session, t) = "UNKNOWN"
    /\ \A j \in Events("packet") :
          /\ log[j].type \in AlwaysAllowed => log[j].f = "ALLOWED"
          /\ log[j].type \in NoRow => log[j].f = "UNKNOWN"

\* a server that waits for NEWKEYS received a packet of type 8 and answered
\* UNIMPLEMENTED; the session is not in ERROR
C21_Witness ==
    /\ session.server /\ session.session_state = "DH"
    /\ session.dh_handshake_state = "DH_STATE_NEWKEYS_SENT"
    /\ \E j \in Events("packet") : log[j].type = 8 /\ log[j].f = "UNKNOWN"
    /\ Events("unimpl") # {} /\ Events("call") = {}

FilterResults == {"ALLOWED", "DENIED", "UNKNOWN"}

\* a session that has nothing but the role and the phase of s
PhaseOnly(s) ==
    [NewSession(s.client) EXCEPT !.server = s.server,
                                 !.session_state = s.session_state,
                                 !.dh_handshake_state = s.dh_handshake_state,
                                 !.auth_state = s.auth_state,
                                 !.auth_service_state = s.auth_service_state,
                                 !.global_req_state = s.global_req_state]

\* the step hands a packet to the filter
Filtered == Events("packet")' # {} /\ Events("packet") = {}

\* C22: for every type 0..255 and every combination of role, session_state,
\* dh state, auth_state, auth_service_state and global_req_state the filter
\* answers ALLOWED, DENIED or UNKNOWN; the answer is a function of the type,
\* the role and these five states alone (sessions that agree on them get the
\* same answer, whatever their other fields); and the step that filters a
\* packet leaves the role, the states other than session_state, the channel
\* and the handler tables as they were, session_state changing only to ERROR
\* on the answer DENIED.
C22_FilterIsAPureFunction ==
    /\ [](/\ BeforePacket =>
               \A t \in 0 .. 255 :
                  /\ FilterOf(session, t) \in FilterResults
                  /\ FilterOf(session, t) = FilterOf(PhaseOnly(session), t)
          /\ \A t \in FilterTypes :
                FilterOf(session, t) = FilterOf(PhaseOnly(session), t)
          /\ \A j \in Events("packet") :
                log[j].f = FilterOf(PhaseOnly(session), log[j].type)
                \/ (log[j].f = "DENIED" /\ session.session_state = "ERROR"))
    /\ [][Filtered =>
            LET j == CHOOSE i \in Events("packet")' : TRUE
            IN  /\ log'[j].ph = Phase(session)
                /\ log'[j].f = FilterOf(session, log'[j].type)
                /\ [Phase(session') EXCEPT !.session_state = ""]
                     = [Phase(session) EXCEPT !.session_state = ""]
                /\ session'.channel_request_state = session.channel_request_state
                /\ session'.packet_callbacks = session.packet_callbacks
                /\ session'.session_state =
                      IF log'[j].f = "DENIED" THEN "ERROR" ELSE session.session_state]_vars

\* the handler of CHANNEL_SUCCESS runs in an authenticated session with a
\* request pending on its channel: the packet was counted and allowed
C22_Witness ==
    /\ cb.pc = "handler"
    /\ session.in_packet.type = SSH2_MSG_CHANNEL_SUCCESS
    /\ session.session_state = "AUTHENTICATED"
    /\ session.channel_request_state = "PENDING"
    /\ session.recv_seq = W(1)
    /\ \E j \in Events("packet") : log[j].f = "ALLOWED"

\* ---------------------------------------------------------------------------
\* Several packets in one feed, with handlers that install keys or move the
\* session to another phase between them (SpecRekey)
\* ---------------------------------------------------------------------------

\* the crypto contexts a handler may make current
RekeyCryptos == {Crypto(Cipher(16, 16, 5), MacLen, FALSE), Crypto(Cipher(8, 0, 3), MacLen, FALSE)}

\* the bytes the peer puts on the wire for payload as its packet number seq
\* under the context cr
PeerPacket(cr, seq, payload) ==
    packet_send2([NewSession(FALSE) EXCEPT !.current_crypto = cr, !.send_seq = seq,
                                           !.out_buffer = payload], "none", 7).bytes

RekeyPayloads == {<<SSH2_MSG_IGNORE>>, <<SSH2_MSG_CHANNEL_DATA, 5>>, <<SSH2_MSG_NEWKEYS>>}

\* NEWKEYS in the clear, then a second packet under some context, then
\* perhaps a third under the same context
RekeyFeeds ==
    {PeerPacket(NoCrypto, W(0), <<SSH2_MSG_NEWKEYS>>) \o PeerPacket(cr, W(1), p) :
        cr \in RekeyCryptos \cup {NoCrypto}, p \in RekeyPayloads}
    \cup {PeerPacket(NoCrypto, W(0), <<SSH2_MSG_NEWKEYS>>) \o PeerPacket(cr, W(1), p)
            \o PeerPacket(cr, W(2), <<SSH2_MSG_IGNORE>>) :
            cr \in RekeyCryptos \cup {NoCrypto}, p \in RekeyPayloads}

InitRekey ==
    /\ session \in {InPhase(c, "DH", "DH_STATE_NEWKEYS_SENT", "NONE", "NONE") : c \in BOOLEAN}
    /\ cb = IdleFrame
    /\ log = <<>>
    /\ tally = NoTally

\* the running handler makes another crypto context the current one
HandlerSetCrypto(cr) ==
    /\ cb.pc = "handler"
    /\ session.current_crypto # cr
    /\ session' = [session EXCEPT !.current_crypto = cr]
    /\ UNCHANGED <<cb, log, tally>>

NextRekey ==
    \/ \E d \in RekeyFeeds : log = <<>> /\ SocketData(d, "none")
    \/ SocketLeftover("none")
    \/ \E rv \in HandlerReturns : HandlerReturn(rv, "none")
    \/ \E p \in PhaseMenu : HandlerSetPhase(p)
    \/ \E cr \in RekeyCryptos : HandlerSetCrypto(cr)

SpecRekey == InitRekey /\ [][NextRekey]_vars

\* under the crypto context of s, data starts with a whole packet that passes
\* the length checks, the decryption, the MAC check and the padding check
GoodPacket(s, data) ==
    /\ s.session_state # "ERROR"
    /\ WholePacket(s, data)
    /\ s.current_crypto.active => Decryptable(s, data) /\ MacVerifies(s, data)
    /\ WireClear(s, data)[5] + 2 <= WInt(WireLen(s, data))

\* the session differs from the one the feed started with in its phase or in
\* its crypto context
ChangedSinceFeed ==
    \E c \in BOOLEAN :
       \/ Phase(session) # Phase(InPhase(c, "DH", "DH_STATE_NEWKEYS_SENT", "NONE", "NONE"))
       \/ session.current_crypto # NoCrypto

\* C30: the recursive call of the callback on the bytes left behind a packet
\* of the same feed works with the session as the handlers of the packets
\* before it left it.  It starts on exactly the bytes left over; the block
\* size, the block size of the length field and the MAC length are those of
\* the crypto context current at that moment, so that a whole packet under
\* this context (and only such a packet) is taken off the bytes, counted in
\* recv_seq and filtered, its type read from the cleartext under this
\* context; and the filter's answer is the one for the phase current at that
\* moment.
C30_NextPacketUnderCurrentSession ==
    [][(FeedStep /\ cb.pc = "leftover") =>
         /\ LevelFeed'.b = cb.data
         /\ LevelFeed'.ph = Phase(session)
         /\ GoodPacket(session, cb.data) =>
               /\ Events("packet")' # {}
               /\ \A j \in Events("packet")' :
                     /\ log'[j].n = 4 + WInt(WireLen(session, cb.data)) + InMacsize
                     /\ log'[j].type = WireClear(session, cb.data)[6]
                     /\ log'[j].w = WAdd(session.recv_seq, W(1))
                     /\ log'[j].f = FilterOf(session, log'[j].type)
         /\ ~GoodPacket(session, cb.data) => Events("packet")' = {}]_vars

\* the handler of the second packet of a feed runs: the packet came under the
\* keys and in the phase that the handler of the first packet, NEWKEYS in the
\* clear, had installed, and it was allowed as channel data of an
\* authenticated session
C30_Witness ==
    /\ cb.pc = "handler"
    /\ cb.depth = 2
    /\ session.in_packet.type = SSH2_MSG_CHANNEL_DATA
    /\ session.current_crypto = Crypto(Cipher(16, 16, 5), MacLen, FALSE)
    /\ session.session_state = "AUTHENTICATED"
    /\ session.recv_seq = W(2)
    /\ ChangedSinceFeed
    /\ \E j \in Events("packet") : log[j].f = "ALLOWED" /\ log[j].n > 16

\* ---------------------------------------------------------------------------
\* The count of received packets near the wrap-around of recv_seq (SpecSeq)
\* ---------------------------------------------------------------------------

\* a session starts at 0; after 2^32 - 2 packets recv_seq is 0xfffffffe
SeqStarts == {W(0), <<65535, 65534>>}

SeqCryptos == {NoCrypto, Crypto(Cipher(8, 0, 3), MacLen, FALSE)}

\* handled, allowed without a default handler, unknown to the filter, denied
\* in an authenticated session
SeqPayloads ==
    {<<SSH2_MSG_IGNORE>>, <<SSH2_MSG_KEX_DH_GEX_REPLY>>, <<250>>, <<SSH2_MSG_USERAUTH_SUCCESS>>}

\* a packet damaged on the wire in its fifth byte
Broken(w) == [w EXCEPT ![5] = (@ + 128) % 256]

\* what the peer may send as its packet number seq under the context cr
SeqPackets(cr, seq) ==
    {PeerPacket(cr, seq, p) : p \in SeqPayloads}
    \cup {Broken(PeerPacket(cr, seq, <<SSH2_MSG_IGNORE>>))}

\* one, two or three packets numbered from seq on, in one read of the socket
SeqFeeds(cr, seq) ==
    LET one == SeqPackets(cr, seq)
        two == {a \o b : a \in one, b \in SeqPackets(cr, WAdd(seq, W(1)))}
        three == {a \o b : a \in two, b \in SeqPackets(cr, WAdd(seq, W(2)))}
    IN  one \cup two \cup three

InitSeq ==
    /\ session \in
         {[InPhase(TRUE, "AUTHENTICATED", "DH_STATE_FINISHED", "SUCCESS", "NONE")
             EXCEPT !.current_crypto = cr, !.recv_seq = st] :
            cr \in SeqCryptos, st \in SeqStarts}
    /\ cb = IdleFrame
    /\ log = <<>>
    /\ tally = NoTally

\* the socket delivers what the peer sent from its packet number recv_seq on
SeqFeed(d) ==
    /\ cb.pc = "idle"
    /\ log = <<>>
    /\ Become(callback_level(Here, d, "none", 7))

NextSeq ==
    \/ \E d \in SeqFeeds(session.current_crypto, session.recv_seq) : SeqFeed(d)
    \/ SocketLeftover("none")
    \/ \E rv \in HandlerReturns : HandlerReturn(rv, "none")

SpecSeq == InitSeq /\ [][NextSeq]_vars

\* recv_seq of the n-th packet counted since the socket delivered the feed
NthSeq(n) == WAdd(cb.seq0, W(n))

\* C31: recv_seq counts, modulo 2^32, the packets that passed decryption,
\* MAC and padding, whatever the filter then says: it moves only when a level
\* of the callback takes such a packet off the bytes, then by exactly one and
\* before the filter's answer is acted on, and a level that takes none leaves
\* it.  When the n-th such packet is filtered and while its handlers run
\* recv_seq is the start value plus n, and the UNIMPLEMENTED reply for it
\* carries the start value plus n - 1 and is sent with SSH_OK, across the
\* wrap from 0xffffffff to 0 as well.
C31_RecvSeqCounts ==
    /\ [](log # <<>> =>
            /\ session.recv_seq = NthSeq(tally.recvs_framed)
            /\ \A j \in Events("packet") : log[j].w = NthSeq(tally.recvs_framed)
            /\ \A j \in Events("call") : log[j].w = NthSeq(tally.recvs_framed)
            /\ \A j \in Events("unimpl") :
                  /\ tally.recvs_framed >= 1
                  /\ log[j].w = NthSeq(tally.recvs_framed - 1)
                  /\ Len(log) >= j + 2
                  /\ log[j + 1].k = "send"
                  /\ log[j + 1].b = <<SSH2_MSG_UNIMPLEMENTED>> \o htonl(log[j].w)
                  /\ log[j + 1].f = "SSH_OK"
                  /\ log[j + 2].k = "write")
    /\ [][/\ session'.recv_seq # session.recv_seq =>
                /\ FeedStep
                /\ Events("packet")' # {}
                /\ session'.recv_seq = WAdd(session.recv_seq, W(1))
          /\ FeedStep =>
                /\ GoodPacket(session, LevelFeed'.b) <=> Events("packet")' # {}
                /\ Events("packet")' = {} => session'.recv_seq = session.recv_seq
                /\ tally'.recvs_framed =
                      tally.recvs_framed + Cardinality(Events("packet")')]_vars

\* the second packet of a feed, of a type unknown to the filter, was the
\* packet number 0xffffffff of an encrypted session: recv_seq has wrapped to
\* 0 and the reply carrying 0xffffffff went out
C31_Witness ==
    /\ session.current_crypto.active
    /\ tally.recvs_framed = 2
    /\ session.recv_seq = W(0)
    /\ session.session_state = "AUTHENTICATED"
    /\ \E j \in Events("unimpl") :
          /\ log[j].type = 250
          /\ log[j].w = <<65535, 65535>>
          /\ log[j + 1].b = <<SSH2_MSG_UNIMPLEMENTED, 255, 255, 255, 255>>
          /\ log[j + 1].f = "SSH_OK"

\* ---------------------------------------------------------------------------
\* Sends that fail before the write, and the sends that follow (SpecStale)
\* ---------------------------------------------------------------------------

StaleCryptos == {NoCrypto, Crypto(Cipher(8, 0, 3), MacLen, TRUE)}

\* the steps of packet_send2 that may fail
StaleFaults == SendFaults \ {"pack"}

StalePayloads == {<<SSH2_MSG_IGNORE>>, <<250>>}

InitStale ==
    /\ session \in
         {[InPhase(TRUE, "AUTHENTICATED", "DH_STATE_FINISHED", "SUCCESS", "NONE")
             EXCEPT !.current_crypto = cr] : cr \in StaleCryptos}
    /\ cb = IdleFrame
    /\ log = <<>>
    /\ tally = NoTally

NextStale ==
    \/ \E p \in SendPayloads, f \in Faults(StaleFaults) : AppSend(p, f, 7)
    \/ \E p \in StalePayloads, f \in Faults(StaleFaults) :
          SocketData(PeerPacket(session.current_crypto, session.recv_seq, p), f)
    \/ \E rv \in HandlerReturns, f \in Faults(StaleFaults) : HandlerReturn(rv, f)

SpecStale == InitStale /\ [][NextStale]_vars

\* ssh_packet_send was called in this step
SendStep == tally'.sends_ok # tally.sends_ok \/ tally'.faults # tally.faults

\* the call reached ssh_packet_write
WriteReached == tally'.sends_written # tally.sends_written

\* the entry of that call in the log
SendEvent == log'[CHOOSE j \in Events("send")' : \A k \in Events("send")' : k <= j]

\* the payload framed in the bytes w that the session wrote
WrittenPayload(w) ==
    LET cr == session.current_crypto
        clear == cipher_decrypt(cr.out_cipher, Take(w, Len(w) - hmac_digest_len(cr.out_hmac)))
        body == SubSeq(clear, 6, Len(clear) - clear[5])
        z == IF cr.compress_out_ctx = NoStream THEN 0 ELSE cr.compress_out_ctx
    IN  IF cr.active /\ cr.do_compress_out THEN inflate(z, body).out ELSE body

\* the forms out_buffer takes on the way of payload p through packet_send2
\* before the write: as packed, compressed, with its header, and encrypted
\* with header and padding
SendStages(p) ==
    LET cr == session.current_crypto
        z == IF cr.compress_out_ctx = NoStream THEN 0 ELSE cr.compress_out_ctx
        c == IF cr.active /\ cr.do_compress_out THEN deflate(z, p) ELSE p
    IN  {p, c}
        \cup {htonl(W(Len(c) + n + 1)) \o <<n>> \o c : n \in 4 .. 11}
        \cup {cipher_encrypt(cr.out_cipher,
                             htonl(W(Len(c) + n + 1)) \o <<n>> \o c \o [i \in 1 .. n |-> 7]) :
                n \in 4 .. 11}

EntryBlind(l) ==
    [i \in 1 .. Len(l) |-> IF l[i].k \in {"feed", "packet"} THEN [l[i] EXCEPT !.ps = ""]
                                                               ELSE l[i]]

\* no packet was taken off the bytes, nothing called and nothing sent
NothingDone ==
    Events("packet")' \cup Events("call")' \cup Events("unimpl")' \cup Events("nested")' = {}

\* what the callback does with data when it is entered in state INIT
InOnePiece(data) ==
    callback_level([Here EXCEPT !.session.packet_state = "INIT", !.log = <<>>,
                                !.cb = IdleFrame],
                   data, "none", 7)

\* C33: a feed in state INIT that holds the length block of an acceptable
\* packet but not the whole packet with its MAC returns 0 and leaves the
\* callback in SIZEREAD with the length recorded in in_packet.len and the
\* decrypted length block in in_buffer; no handler runs and recv_seq stays.
\* A feed in SIZEREAD that is still too short returns 0 and changes nothing.
\* A feed in SIZEREAD that holds the whole packet from its first byte gives
\* what the same bytes give in state INIT: the same session, the same return
\* value, the same calls and replies, the packet counted once.
C33_PartialPacket ==
    [][(FeedStep /\ cb.pc = "idle" /\ session.session_state # "ERROR") =>
         LET data == LevelFeed'.b
         IN  /\ (/\ session.packet_state = "INIT"
                 /\ Len(data) >= InLenfield
                 /\ packet_len_check(WireLen(session, data), InLenfield) = "ok"
                 /\ Len(data) < 4 + WInt(WireLen(session, data)) + InMacsize) =>
                   /\ Last'.k = "ret" /\ Last'.n = 0
                   /\ NothingDone
                   /\ session' = [session EXCEPT
                                    !.packet_state = "SIZEREAD",
                                    !.in_packet = [ZeroPacket EXCEPT
                                                     !.len = WInt(WireLen(session, data))],
                                    !.in_buffer = cipher_decrypt(
                                                      session.current_crypto.in_cipher,
                                                      Take(data, InLenfield))]
             /\ (/\ session.packet_state = "SIZEREAD"
                 /\ Len(data) < session.in_packet.len + 4 + InMacsize) =>
                   /\ Last'.k = "ret" /\ Last'.n = 0
                   /\ NothingDone
                   /\ session' = session
             /\ (/\ session.packet_state = "SIZEREAD"
                 /\ Len(data) >= session.in_packet.len + 4 + InMacsize) =>
                   /\ session' = InOnePiece(data).session
                   /\ cb' = InOnePiece(data).cb
                   /\ EntryBlind(SubSeq(log', Len(log') - Len(InOnePiece(data).log) + 1,
                                        Len(log')))
                        = EntryBlind(InOnePiece(data).log)
                   /\ (GoodPacket(session, data) /\ Last'.f # "decompress") =>
                         /\ Cardinality(Events("packet")') = 1
                         /\ session'.recv_seq = WAdd(session.recv_seq, W(1))]_vars

\* the handler of CHANNEL_DATA runs on a packet of an encrypted session whose
\* first bytes had arrived alone: the level was entered in SIZEREAD
C33_Witness ==
    /\ cb.pc = "handler"
    /\ session.current_crypto.active
    /\ LevelFeed.ps = "SIZEREAD"
    /\ session.in_packet.type = SSH2_MSG_CHANNEL_DATA
    /\ session.in_buffer = <<5, 6>>
    /\ session.recv_seq = W(1)

\* ---------------------------------------------------------------------------
\* Handlers that send (SpecEgress)
\* ---------------------------------------------------------------------------

EgressCryptos == {NoCrypto, Crypto(Cipher(8, 0, 3), MacLen, TRUE)}

EgressPayloads == {<<SSH2_MSG_IGNORE>>, <<SSH2_MSG_CHANNEL_DATA, 5>>, <<250>>}

\* one packet, or two, the second from the peer's compression stream after
\* the first
EgressFeeds(cr, seq) ==
    {PeerPacket(cr, seq, p) : p \in EgressPayloads}
    \cup {PeerPacket(cr, seq, p)
            \o PeerPacket([cr EXCEPT !.compress_out_ctx = 1], WAdd(seq, W(1)), q) :
            p \in EgressPayloads, q \in EgressPayloads}

InitEgress ==
    /\ session \in
         {[InPhase(TRUE, "AUTHENTICATED", "DH_STATE_FINISHED", "SUCCESS", "NONE")
             EXCEPT !.current_crypto = cr, !.raw_counter = rc] :
            cr \in EgressCryptos, rc \in {NoCounter, ZeroCounter}}
    /\ cb = IdleFrame
    /\ log = <<>>
    /\ tally = NoTally

NextEgress ==
    \/ \E d \in EgressFeeds(session.current_crypto, session.recv_seq) : SocketData(d, "none")
    \/ SocketLeftover("none")
    \/ \E rv \in HandlerReturns : HandlerReturn(rv, "none")
    \/ \E p \in SendPayloads, f \in Faults(StaleFaults) : HandlerSend(p, f)

SpecEgress == InitEgress /\ [][NextEgress]_vars

\* the receive side of the session
Ingress(s) ==
    [packet_state |-> s.packet_state, in_buffer |-> s.in_buffer, in_packet |-> s.in_packet,
     recv_seq |-> s.recv_seq, in_bytes |-> s.raw_counter.in_bytes,
     in_packets |-> s.raw_counter.in_packets,
     compress_in_ctx |-> s.current_crypto.compress_in_ctx,
     in_cipher |-> s.current_crypto.in_cipher, ph |-> Phase(s)]

\* the session without its send side
EgressBlind(s) ==
    [s EXCEPT !.out_buffer = <<>>, !.send_seq = W(0),
              !.raw_counter.out_bytes = 0, !.raw_counter.out_packets = 0,
              !.current_crypto.compress_out_ctx = NoStream]

\* the running handler called ssh_packet_send in this step
HandlerSendStep ==
    /\ cb.pc = "handler" /\ cb'.pc = "handler"
    /\ Len(log') > Len(log)
    /\ log'[Len(log) + 1].k = "send"

\* the running handler returned in this step
HandlerReturnStep ==
    /\ cb.pc = "handler"
    /\ Len(log') > Len(log)
    /\ log'[Len(log) + 1].k = "handled"

\* C34: a send made by a running handler happens in packet_state PROCESSING
\* and changes nothing but out_buffer, send_seq, the outgoing counters and
\* the outgoing compression stream: packet_state, in_buffer, in_packet,
\* recv_seq, the incoming counters and stream, the phase and the position of
\* the callback in its feed stay.  A send that reached the write has moved
\* send_seq by one and the outgoing counters by one packet and the bytes of
\* the payload.  When the handler then returns, the receive side and the
\* callback go on as they do from the same state with the send side blank:
\* the feed completes its packet as if nothing had been sent, and a feed
\* that ran to its end has consumed all its bytes with every packet counted
\* once.
C34_HandlerSendIsEgressOnly ==
    /\ [][HandlerSendStep =>
            /\ session.packet_state = "PROCESSING"
            /\ cb' = cb
            /\ Ingress(session') = Ingress(session)
            /\ EgressBlind(session') = EgressBlind(session)
            /\ WriteReached =>
                  /\ session'.send_seq = WAdd(session.send_seq, W(1))
                  /\ session'.out_buffer = <<>>
                  /\ session.raw_counter.alloc =>
                        /\ session'.raw_counter.out_packets =
                              session.raw_counter.out_packets + 1
                        /\ session'.raw_counter.out_bytes =
                              session.raw_counter.out_bytes + Len(log'[Len(log) + 1].b)]_vars
    /\ [][HandlerReturnStep =>
            LET blank == handler_return([Here EXCEPT !.session = EgressBlind(session)],
                                        log'[Len(log) + 1].f, "none")
            IN  /\ Ingress(session') = Ingress(blank.session)
                /\ cb' = blank.cb
                /\ Last'.k = "ret" => (blank.log[Len(blank.log)].k = "ret"
                                       /\ Last'.n = blank.log[Len(blank.log)].n)]_vars
    /\ [](/\ session.recv_seq = W(tally.recvs_framed)
          /\ session.raw_counter.in_packets =
                (IF session.raw_counter.alloc THEN tally.recvs_framed ELSE 0)
          /\ (cb.pc = "idle" /\ log # <<>> /\ Last.k = "ret" /\ Last.f = "done") =>
                /\ Last.n = Len(cb.top)
                /\ session.packet_state = "INIT")

\* the handler of the second packet of a feed runs in an encrypted session
\* with counters; the handlers of both packets have sent, one send was
\* written and one failed before the write
C34_Witness ==
    /\ cb.pc = "handler" /\ cb.depth = 2
    /\ session.packet_state = "PROCESSING"
    /\ session.current_crypto.active
    /\ session.raw_counter.alloc
    /\ session.raw_counter.out_packets = 1
    /\ session.raw_counter.in_packets = 2
    /\ tally.faults = 1
    /\ session.out_buffer # <<>>
    /\ session.send_seq = W(1) /\ session.recv_seq = W(2)
    /\ Last.k = "send"

\* ---------------------------------------------------------------------------
\* A stream of packets that arrives in pieces of any size (SpecLive)
\* ---------------------------------------------------------------------------

LiveCryptos == {NoCrypto, Crypto(Cipher(8, 0, 3), MacLen, FALSE),
                Crypto(Cipher(16, 16, 5), MacLen, FALSE)}

\* what the peer sends: a handled packet, one the filter does not know, and
\* a handled one
LivePayloads == <<<<SSH2_MSG_IGNORE>>, <<250>>, <<SSH2_MSG_CHANNEL_DATA, 5>>>>

\* the peer's k-th packet (numbered from 0) under each context
LivePackets ==
    [cr \in LiveCryptos |-> [k \in 0 .. 2 |-> PeerPacket(cr, W(k), LivePayloads[k + 1])]]

LivePacket(cr, k) == LivePackets[cr][k]

LiveStreams ==
    [cr \in LiveCryptos |-> LivePackets[cr][0] \o LivePackets[cr][1] \o LivePackets[cr][2]]

LiveStream(cr) == LiveStreams[cr]

InitLive ==
    /\ session \in
         {[InPhase(TRUE, "AUTHENTICATED", "DH_STATE_FINISHED", "SUCCESS", "NONE")
             EXCEPT !.current_crypto = cr] : cr \in LiveCryptos}
    /\ cb = IdleFrame
    /\ log = <<>>
    /\ tally = NoTally

\* the bytes the last call of the callback left in the socket buffer
SocketBuffer == IF log = <<>> THEN <<>> ELSE Last.b

\* the socket reads n more bytes of the stream and calls the callback with
\* what it holds: the bytes the last call did not consume and the new ones
LiveFeed(n) ==
    /\ cb.pc = "idle"
    /\ tally.arrived + n <= Len(LiveStream(session.current_crypto))
    /\ n > 0 \/ SocketBuffer # <<>>
    /\ Become(callback_level([Here EXCEPT !.tally.arrived = @ + n],
                             SocketBuffer
                               \o SubSeq(LiveStream(session.current_crypto),
                                         tally.arrived + 1, tally.arrived + n),
                             "none", 7))

\* the socket reads a byte, a few bytes, or all that is still to come
LiveChunks == {1, 7, 16, Len(LiveStream(session.current_crypto)) - tally.arrived} \ {0}

NextLive ==
    \/ \E n \in LiveChunks \cup {0} : LiveFeed(n)
    \/ SocketLeftover("none")
    \/ \E rv \in HandlerReturns : HandlerReturn(rv, "none")

\* bytes of the peer are still to arrive and the callback is not running
BytesToCome ==
    cb.pc = "idle" /\ tally.arrived < Len(LiveStream(session.current_crypto))

\* the step each position of the callback waits for changes the state
LiveEnabled ==
    /\ cb.pc = "leftover" => callback_level(Here, cb.data, "none", 7) # Here
    /\ cb.pc = "handler" =>
          \A rv \in HandlerReturns : handler_return(Here, rv, "none") # Here

\* weak fairness of the three steps, each with its enabling condition written
\* out (LiveEnabled): the socket goes on reading while the peer's bytes
\* arrive, the callback goes on with the bytes left, the handlers return
LiveFair ==
    /\ \/ []<>~BytesToCome
       \/ []<><<\E n \in LiveChunks : LiveFeed(n)>>_vars
    /\ \/ []<>(cb.pc # "leftover")
       \/ []<><<SocketLeftover("none")>>_vars
    /\ \/ []<>(cb.pc # "handler")
       \/ []<><<\E rv \in HandlerReturns : HandlerReturn(rv, "none")>>_vars

SpecLive == InitLive /\ [][NextLive]_vars /\ LiveFair

\* the peer's first k packets
LiveOffset(k) ==
    IF k = 0 THEN 0
    ELSE IF k = 1 THEN Len(LivePacket(session.current_crypto, 0))
    ELSE IF k = 2 THEN Len(LivePacket(session.current_crypto, 0))
                       + Len(LivePacket(session.current_crypto, 1))
    ELSE Len(LiveStream(session.current_crypto))

\* a whole packet of the peer has arrived and is not processed yet
PacketWaits == tally.recvs_ok < 3 /\ tally.arrived >= LiveOffset(tally.recvs_ok + 1)

\* C35: while the socket feeds the callback the bytes it did not consume
\* followed by those that arrive, the session stays out of ERROR and every
\* packet of the peer is processed once and in the order sent: the k-th
\* packet counted is the k-th packet sent, handled by the handler of its type
\* or answered with UNIMPLEMENTED for its number, and the bytes consumed are
\* those of the packets counted.  The callback leaves SIZEREAD and
\* PROCESSING again, and in the end all three packets are processed, the
\* socket buffer is empty and the callback is back in INIT.
C35_EveryPacketProcessed ==
    /\ [](/\ session.session_state # "ERROR"
          /\ LiveEnabled
          /\ WInt(session.recv_seq) = tally.recvs_framed
          /\ tally.recvs_framed <= 3
          /\ tally.recvs_ok \in {tally.recvs_framed - 1, tally.recvs_framed}
          /\ \A j \in Events("packet") \cup Events("call") :
                /\ log[j].w = session.recv_seq
                /\ log[j].type = LivePayloads[WInt(session.recv_seq)][1]
          /\ \A j \in Events("unimpl") :
                /\ log[j].type = LivePayloads[WInt(session.recv_seq)][1]
                /\ log[j].w = WSub(session.recv_seq, W(1))
          /\ (cb.pc = "idle" /\ log # <<>> /\ Events("packet") # {}) =>
                Events("call") \cup Events("unimpl") # {}
          /\ (cb.pc = "idle" /\ log # <<>>) =>
                /\ Last.k = "ret"
                /\ tally.arrived - Len(Last.b) = LiveOffset(tally.recvs_ok)
                /\ tally.recvs_ok = tally.recvs_framed
                /\ \/ tally.recvs_ok = 3 /\ Last.b = <<>>
                   \/ /\ tally.recvs_ok < 3
                      /\ Len(Last.b) < LiveOffset(tally.recvs_ok + 1)
                                          - LiveOffset(tally.recvs_ok))
    /\ (session.packet_state = "SIZEREAD") ~> (session.packet_state = "INIT")
    /\ (session.packet_state = "PROCESSING") ~> (session.packet_state = "INIT")
    /\ []<>~PacketWaits
    /\ <>[](/\ tally.recvs_ok = 3 /\ session.recv_seq = W(3)
            /\ cb.pc = "idle" /\ session.packet_state = "INIT"
            /\ SocketBuffer = <<>>)

\* all of the peer's stream has been processed in an encrypted session, the
\* last packet after a wait in SIZEREAD for its last bytes
C35_Witness ==
    /\ session.current_crypto.active
    /\ tally.recvs_ok = 3 /\ session.recv_seq = W(3)
    /\ tally.arrived = Len(LiveStream(session.current_crypto))
    /\ cb.pc = "idle" /\ session.packet_state = "INIT"
    /\ Last.k = "ret" /\ Last.b = <<>>
    /\ LevelFeed.ps = "SIZEREAD"
    /\ Events("call") # {}

\* ---------------------------------------------------------------------------
\* One call of the callback on whole, cut and damaged streams (SpecTerm)
\* ---------------------------------------------------------------------------

\* what the socket may hold when it calls the callback: the peer's stream,
\* a part of it, or its first packets with something else behind them
TermFeedsOf ==
    [cr \in LiveCryptos |->
        LET st == LiveStreams[cr]
            two == LivePackets[cr][0] \o LivePackets[cr][1]
        IN  {st, two, LivePackets[cr][0],
             Take(st, Len(st) - 1), Take(st, Len(two) + 3), Take(st, 5), <<>>,
             two \o <<255, 255, 255, 255, 0, 0, 0, 0, 0, 0, 0, 0, 0, 0, 0, 0, 0>>,
             LivePackets[cr][0] \o LivePackets[cr][0],
             st \o st}]

TermFeeds(cr) == TermFeedsOf[cr]

\* the first call of the socket
TermFeed(d) ==
    /\ cb.pc = "idle" /\ log = <<>>
    /\ Become(callback_level(Here, d, "none", 7))

NextTerm ==
    \/ \E d \in TermFeeds(session.current_crypto) : TermFeed(d)
    \/ SocketLeftover("none")
    \/ \E rv \in HandlerReturns : HandlerReturn(rv, "none")

\* weak fairness of the steps inside a call, each with its enabling condition
\* written out (LiveEnabled): the callback goes on with the bytes left and
\* the handlers return
TermFair ==
    /\ \/ []<>(cb.pc # "leftover")
       \/ []<><<SocketLeftover("none")>>_vars
    /\ \/ []<>(cb.pc # "handler")
       \/ []<><<\E rv \in HandlerReturns : HandlerReturn(rv, "none")>>_vars

SpecTerm == InitLive /\ [][NextTerm]_vars /\ TermFair

\* C36: a call of the callback comes to its end when the handlers return.
\* The call on the bytes left gets fewer bytes than its caller got, by at
\* least the block that holds the length field, and the bytes of all levels
\* add up to the bytes supplied; the handler of a packet runs with at least
\* that block and at most the bytes of its level consumed; the value
\* returned is between 0 and the number of bytes supplied, and the bytes
\* left are the supplied ones behind it.
C36_CallbackTerminates ==
    /\ [](/\ LiveEnabled
          /\ cb.pc = "leftover" =>
                /\ Len(cb.data) > 0
                /\ Len(cb.data) + InLenfield <= Len(LevelFeed.b)
                /\ cb.acc + Len(cb.data) = Len(cb.top)
                /\ cb.data = Drop(cb.top, cb.acc)
          /\ cb.pc = "handler" =>
                /\ cb.processed >= InLenfield
                /\ cb.processed <= Len(cb.data)
                /\ cb.acc + Len(cb.data) = Len(cb.top)
          /\ cb.depth * InLenfield <= Len(cb.top) + InLenfield
          /\ (cb.pc = "idle" /\ log # <<>>) =>
                /\ Last.k = "ret"
                /\ Last.n >= 0 /\ Last.n <= Len(cb.top)
                /\ Last.b = Drop(cb.top, Last.n))
    /\ (cb.pc # "idle") ~> (cb.pc = "idle")
    /\ <>[](cb.pc = "idle")

\* the callback returned from its fourth level, under a cipher: three packets
\* were processed and bytes behind them are left
C36_Witness ==
    /\ session.current_crypto.active
    /\ cb.pc = "idle" /\ log # <<>> /\ Last.k = "ret"
    /\ tally.recvs_ok = 3
    /\ Last.n > 0 /\ Last.n < Len(cb.top)
    /\ Len(cb.top) > Len(LiveStream(session.current_crypto))

\* ---------------------------------------------------------------------------
\* decompress_buffer on coded payloads, alone and inside a feed (SpecGunzip)
\* ---------------------------------------------------------------------------

GunzipCrypto == Crypto(Cipher(8, 0, 3), MacLen, TRUE)

\* lengths of the runs decoded: around the first sizes of the output buffer
GunzipRuns == {6, 24, 25, 26, 50, 100, 25600, 51200}

\* what the peer may send as a compressed payload: the output of a fresh
\* deflate stream, a final block, and data that is not such output
GunzipSources ==
    {deflate(0, RunPayload(n)) : n \in GunzipRuns}
    \cup {deflate(0, <<SSH2_MSG_IGNORE>>), deflate(0, <<SSH2_MSG_CHANNEL_DATA, 5>>),
          <<0, 2, 3>>, <<5, 0, 1>>, <<0, 7, 1>>, <<0>>}

\* the limits decompress_buffer is called with; the callback passes MAX_PACKET_LEN
GunzipMaxlens == {24, 25, 26, 40, 50, 100, MAX_PACKET_LEN}

InitGunzip ==
    /\ session = [InPhase(TRUE, "AUTHENTICATED", "DH_STATE_FINISHED", "SUCCESS", "NONE")
                    EXCEPT !.current_crypto = GunzipCrypto]
    /\ cb = IdleFrame
    /\ log = <<>>
    /\ tally = NoTally

\* decompress_buffer(session, in_buffer, maxlen) with source in in_buffer.
\* The log keeps the call ("decompress": n = maxlen, b = source), every call
\* of inflate ("inflate": n = out_maxlen, w = avail_out after it, f = status)
\* and the return ("ret": n = value returned, b = in_buffer).
Decompress(source, maxlen) ==
    /\ cb.pc = "idle" /\ log = <<>>
    /\ LET s == [session EXCEPT !.in_buffer = source]
           d == gzip_decompress(s, source, maxlen)
           r == decompress_buffer(s, maxlen)
       IN  /\ session' = r.s
           /\ log' = <<Ev(s, "decompress", 0, maxlen, W(0), source, "")>>
                      \o [i \in 1 .. Len(d.calls) |->
                            Ev(s, "inflate", 0, d.calls[i].out_maxlen,
                               W(d.calls[i].avail_out), <<>>, d.calls[i].status)]
                      \o <<Ev(r.s, "ret", 0, r.rc, W(0), r.s.in_buffer, "decompress_buffer")>>
    /\ UNCHANGED <<cb, tally>>

\* the peer's first packet around a payload it did not compress itself
GunzipPacket(source) ==
    PeerPacket([GunzipCrypto EXCEPT !.do_compress_out = FALSE], W(0), source)

NextGunzip ==
    \/ \E source \in GunzipSources \cup {<<>>}, maxlen \in GunzipMaxlens :
          Decompress(source, maxlen)
    \/ \E source \in GunzipSources :
          log = <<>> /\ SocketData(GunzipPacket(source), "none")
    \/ \E rv \in HandlerReturns : HandlerReturn(rv, "none")

SpecGunzip == InitGunzip /\ [][NextGunzip]_vars

\* the loop ended on Z_OK with room left in the output buffer or on Z_BUF_ERROR
EndsWell(call) ==
    \/ call.status = "Z_OK" /\ call.avail_out > 0
    \/ call.status = "Z_BUF_ERROR"

\* the first size of the output buffer
FirstOutMaxlen(in_size, maxlen) ==
    LET m == IF 4 * in_size < 25 THEN 25 ELSE 4 * in_size
    IN  IF m > maxlen THEN maxlen ELSE m

\* C37: decompress_buffer calls inflate again only after Z_OK with the output
\* buffer full and below maxlen, and then with the buffer doubled.  It
\* returns 0 when the last call returned Z_OK with room left or Z_BUF_ERROR,
\* with in_buffer the bytes written so far (a prefix of what the stream
\* decodes); it returns -1 with in_buffer untouched on any other status and
\* on Z_OK with a full buffer of maxlen or more.  The stream exists
\* afterwards.  A feed whose payload does not decompress returns with
\* session_state ERROR, the packet not counted and no handler called, and a
\* feed fails so exactly when the loop under MAX_PACKET_LEN does not end well.
C37_InflateLoop ==
    /\ (log # <<>> /\ log[1].k = "decompress") =>
          LET m == Len(log)
              maxlen == log[1].n
              source == log[1].b
              last == log[m - 1]
              ok == \/ last.f = "Z_OK" /\ WInt(last.w) > 0
                    \/ last.f = "Z_BUF_ERROR"
          IN  /\ m >= 3 /\ log[m].k = "ret"
              /\ \A i \in 2 .. m - 1 : log[i].k = "inflate"
              /\ log[2].n = FirstOutMaxlen(Len(source), maxlen)
              /\ \A i \in 2 .. m - 2 :
                    /\ log[i].f = "Z_OK" /\ WInt(log[i].w) = 0
                    /\ log[i].n < maxlen
                    /\ log[i + 1].n = 2 * log[i].n
              /\ (last.f = "Z_OK" /\ WInt(last.w) = 0) => last.n >= maxlen
              /\ log[m].n = IF ok THEN 0 ELSE -1
              /\ ok => /\ Len(log[m].b) = last.n - WInt(last.w)
                       /\ log[m].b = Take(inflate(0, source).out, Len(log[m].b))
              /\ ~ok => log[m].b = source
              /\ session.current_crypto.compress_in_ctx = 1
    /\ (log # <<>> /\ log[1].k = "feed" /\ Last.k = "ret") =>
          /\ Last.f = "decompress" =>
                /\ session.session_state = "ERROR"
                /\ session.recv_seq = W(0)
                /\ Events("packet") = {} /\ Events("call") = {}
          /\ \A source \in GunzipSources :
                log[1].b = GunzipPacket(source) =>
                   LET calls == gzip_decompress(
                                   [session EXCEPT
                                      !.current_crypto.compress_in_ctx = NoStream],
                                   source, MAX_PACKET_LEN).calls
                   IN  (Last.f = "decompress") <=> ~EndsWell(calls[Len(calls)])

\* a run of 25600 bytes filled the output buffer at its eleventh size: the
\* twelfth call of inflate returned Z_BUF_ERROR and the payload was accepted
C37_Witness ==
    /\ log # <<>> /\ log[1].k = "decompress" /\ log[1].n = MAX_PACKET_LEN
    /\ Len(log) = 14
    /\ log[12].f = "Z_OK" /\ log[12].w = W(0) /\ log[12].n = 25600
    /\ log[13].f = "Z_BUF_ERROR" /\ log[13].n = 51200
    /\ Last.n = 0 /\ Len(Last.b) = 25600

\* ---------------------------------------------------------------------------
\* Packets sent and received under contexts that compress one direction,
\* both or none (SpecZlib)
\* ---------------------------------------------------------------------------

ZlibCryptos ==
    {NoCrypto,
     Crypto(Cipher(8, 0, 3), MacLen, FALSE),
     Crypto(Cipher(8, 0, 3), MacLen, TRUE),
     [Crypto(Cipher(16, 16, 5), MacLen, TRUE) EXCEPT !.do_compress_in = FALSE],
     [Crypto(Cipher(16, 16, 5), MacLen, TRUE) EXCEPT !.do_compress_out = FALSE]}

\* payloads of both ends: none, one byte, a few bytes, a run
ZlibPayloads ==
    {<<>>, <<SSH2_MSG_IGNORE>>, <<SSH2_MSG_CHANNEL_DATA, 5>>, <<250>>, RunPayload(MinRun)}

InitZlib ==
    /\ session \in
         {[InPhase(TRUE, "AUTHENTICATED", "DH_STATE_FINISHED", "SUCCESS", "NONE")
             EXCEPT !.current_crypto = cr] : cr \in ZlibCryptos}
    /\ cb = IdleFrame
    /\ log = <<>>
    /\ tally = NoTally

\* the peer's next packet: its outgoing direction is our incoming one
ZlibPacket(s, payload) ==
    PeerPacket([s.current_crypto EXCEPT
                  !.do_compress_out = s.current_crypto.do_compress_in,
                  !.compress_out_ctx = s.current_crypto.compress_in_ctx],
               s.recv_seq, payload)

\* the socket delivers the peer's next packet
ZlibFeed(payload) ==
    /\ cb.pc = "idle"
    /\ WInt(session.recv_seq) < MaxSend
    /\ Become(callback_level(Here, ZlibPacket(session, payload), "none", 7))

NextZlib ==
    \/ \E p \in ZlibPayloads : AppSend(p, "none", 7)
    \/ \E p \in ZlibPayloads : ZlibFeed(p)
    \/ \E rv \in HandlerReturns : HandlerReturn(rv, "none")

SpecZlib == InitZlib /\ [][NextZlib]_vars

\* the stream after one more packet: created at NULL, else moved on
NextStream(z) == IF z = NoStream THEN 1 ELSE z + 1

\* what a stream has processed
StreamPos(z) == IF z = NoStream THEN 0 ELSE z

\* the last write of the step in the log
WriteEvent == log'[CHOOSE j \in Events("write")' : \A k \in Events("write")' : k <= j]

\* the step fed the peer's packet around payload to a session not in ERROR
ZlibFeedStep(payload) ==
    /\ cb.pc = "idle" /\ session.session_state # "ERROR"
    /\ log' # <<>> /\ log'[1].k = "feed"
    /\ log'[1].b = ZlibPacket(session, payload)
    /\ WInt(session.recv_seq) < MaxSend

\* C38: nothing of the crypto context changes but its two streams.  The
\* outgoing stream moves exactly in a step that sends a packet (of the layers
\* above, or the UNIMPLEMENTED reply of the callback) with crypto active,
\* do_compress_out set and a payload that is not empty: it is created when
\* NULL, moved on by one packet otherwise, and the payload written is the
\* output of the stream at the position it had.  The incoming stream moves
\* exactly in a step that receives a packet with crypto active,
\* do_compress_in set and a payload that is not empty, and the handler gets
\* the payload the peer compressed at that position.  A stream never goes
\* back to NULL or to an earlier position, and it has processed no more
\* packets than its direction has carried.
C38_StreamsPerDirection ==
    /\ [][LET cr == session.current_crypto
              sent == tally'.sends_written - tally.sends_written
              payload == SendEvent.b
              compresses == cr.active /\ cr.do_compress_out /\ payload # <<>>
          IN  /\ [session'.current_crypto EXCEPT !.compress_in_ctx = NoStream,
                                                  !.compress_out_ctx = NoStream]
                   = [cr EXCEPT !.compress_in_ctx = NoStream,
                                !.compress_out_ctx = NoStream]
              /\ sent \in {0, 1}
              /\ sent = 0 => session'.current_crypto.compress_out_ctx = cr.compress_out_ctx
              /\ sent = 1 =>
                    /\ session'.current_crypto.compress_out_ctx =
                          IF compresses THEN NextStream(cr.compress_out_ctx)
                          ELSE cr.compress_out_ctx
                    /\ WrittenPayload(WriteEvent.b) = payload
              /\ \A p \in ZlibPayloads :
                    ZlibFeedStep(p) =>
                       /\ session'.current_crypto.compress_in_ctx =
                             IF cr.active /\ cr.do_compress_in /\ p # <<>>
                             THEN NextStream(cr.compress_in_ctx)
                             ELSE cr.compress_in_ctx
                       /\ p # <<>> =>
                             /\ session'.in_packet.type = p[1]
                             /\ \E j \in Events("packet")' : log'[j].b = Tail(p)
              /\ (\A p \in ZlibPayloads : ~ZlibFeedStep(p)) =>
                    session'.current_crypto.compress_in_ctx = cr.compress_in_ctx
         ]_vars
    /\ [](LET cr == session.current_crypto
          IN  /\ StreamPos(cr.compress_out_ctx) <= WInt(session.send_seq)
              /\ StreamPos(cr.compress_in_ctx) <= WInt(session.recv_seq)
              /\ cr.compress_out_ctx # NoStream => cr.active /\ cr.do_compress_out
              /\ cr.compress_in_ctx # NoStream => cr.active /\ cr.do_compress_in)

\* under a context that compresses both directions the second compressed
\* packet was received and one of the two packets sent was compressed, the
\* other having been empty
C38_Witness ==
    /\ session.current_crypto.do_compress_in /\ session.current_crypto.do_compress_out
    /\ session.current_crypto.compress_out_ctx = 1
    /\ session.current_crypto.compress_in_ctx = 2
    /\ session.send_seq = W(2) /\ session.recv_seq = W(2)
    /\ session.session_state # "ERROR"

\* ---------------------------------------------------------------------------
\* ssh_packet_socket_controlflow_callback and the channels of the session
\* (SpecFlow)
\* ---------------------------------------------------------------------------

\* a callbacks structure of a channel; fn: channel_write_wontblock_function
\* is set in it
ChannelCallbacks(id, fn) == [id |-> id, channel_write_wontblock_function |-> fn]

Channel(id, remote_window, callbacks) ==
    [id |-> id, remote_window |-> remote_window, callbacks |-> callbacks]

\* ssh_callbacks_execute_list(channel->callbacks, ..., session, channel,
\* channel->remote_window) from structure j on: every structure that has the
\* function is called with the window the channel has at that moment.  What
\* the callback does is up to the layers above; here it writes up to k bytes
\* to its channel, which takes them from remote_window.  The log keeps the
\* call ("wontblock": type = the channel, n = remote_window passed, w = the
\* structure, b = the bytes written).
RECURSIVE channel_callbacks_execute(_, _, _, _)
channel_callbacks_execute(c, i, j, k) ==
    LET channel == c.session.channels[i]
    IN  IF j > Len(channel.callbacks) THEN c
        ELSE IF ~channel.callbacks[j].channel_write_wontblock_function
        THEN channel_callbacks_execute(c, i, j + 1, k)
        ELSE LET n == IF k < channel.remote_window THEN k ELSE channel.remote_window
                 c1 == [c EXCEPT
                          !.log = Append(@, Ev(c.session, "wontblock", channel.id,
                                               channel.remote_window,
                                               W(channel.callbacks[j].id), <<n>>, "")),
                          !.session.channels[i].remote_window = @ - n]
             IN  channel_callbacks_execute(c1, i, j + 1, k)

\* the iteration over session->channels from channel i on (lines 1195-1205)
RECURSIVE controlflow_channels(_, _, _)
controlflow_channels(c, i, k) ==
    IF i > Len(c.session.channels) THEN c
    ELSE controlflow_channels(channel_callbacks_execute(c, i, 1, k), i + 1, k)

\* the callback without the test of the code
controlflow_callback_any_code(c, code, k) ==
    controlflow_channels(
        [c EXCEPT !.log = Append(@, Ev(c.session, "flow", 0, 0, W(0), <<>>, code))], 1, k)

\* ssh_packet_socket_controlflow_callback(code, session); the log keeps the
\* event ("flow": f = code)
controlflow_callback(c, code, k) ==
    LET c1 == [c EXCEPT !.log = Append(@, Ev(c.session, "flow", 0, 0, W(0), <<>>, code))]
    IN  IF code = "SSH_SOCKET_FLOW_WRITEWONTBLOCK"
        THEN controlflow_channels(c1, 1, k)
        ELSE c1

FlowCodes == {"SSH_SOCKET_FLOW_WRITEWILLBLOCK", "SSH_SOCKET_FLOW_WRITEWONTBLOCK"}

\* the bytes a callback tries to write
FlowWrites == {0, 3}

\* the socket reports a control-flow event, between two feeds or while a
\* handler runs
ControlFlow(code, k) ==
    /\ cb.pc \in {"idle", "handler"}
    /\ cb.pc = "handler" => Events("flow") = {}
    /\ Become(controlflow_callback(
                  IF cb.pc = "idle" THEN [Here EXCEPT !.log = <<>>] ELSE Here, code, k))

\* the layers above free a channel: it leaves session->channels
ChannelFree(i) ==
    /\ cb.pc = "idle"
    /\ i \in 1 .. Len(session.channels)
    /\ session' = [session EXCEPT
                     !.channels = SubSeq(@, 1, i - 1) \o SubSeq(@, i + 1, Len(@))]
    /\ log' = <<>>
    /\ UNCHANGED <<cb, tally>>

\* channel lists of an authenticated session: none, one channel with one
\* structure, with a structure that lacks the function, with two structures
\* that have it, and three channels
FlowChannels ==
    {<<>>,
     <<Channel(1, 5, <<ChannelCallbacks(1, TRUE)>>)>>,
     <<Channel(1, 5, <<ChannelCallbacks(1, FALSE), ChannelCallbacks(2, TRUE)>>)>>,
     <<Channel(1, 4, <<ChannelCallbacks(1, TRUE), ChannelCallbacks(2, TRUE)>>),
       Channel(2, 0, <<ChannelCallbacks(1, TRUE)>>)>>,
     <<Channel(1, 7, <<ChannelCallbacks(1, TRUE)>>),
       Channel(2, 2, <<>>),
       Channel(3, 6, <<ChannelCallbacks(1, TRUE), ChannelCallbacks(2, FALSE)>>)>>}

InitFlow ==
    /\ session \in
         {[InPhase(TRUE, "AUTHENTICATED", "DH_STATE_FINISHED", "SUCCESS", "NONE")
             EXCEPT !.channels = chs] : chs \in FlowChannels}
    /\ cb = IdleFrame
    /\ log = <<>>
    /\ tally = NoTally

NextFlow ==
    \/ \E code \in FlowCodes, k \in FlowWrites : ControlFlow(code, k)
    \/ \E i \in 1 .. 3 : ChannelFree(i)
    \/ \E d \in {IgnorePacket, DataPacket \o Take(IgnorePacket, 4)} : SocketData(d, "none")
    \/ \E rv \in HandlerReturns : HandlerReturn(rv, "none")

SpecFlow == InitFlow /\ [][NextFlow]_vars

\* the step is a control-flow event with this code
FlowStep(code) ==
    /\ Events("flow")' # {}
    /\ (cb.pc = "idle" \/ Events("flow") = {})
    /\ \E j \in Events("flow")' : log'[j].f = code /\ (cb.pc = "handler" => j = Len(log) + 1)
    /\ cb' = cb /\ tally' = tally

\* the calls of write_wontblock made for the channel `id` in the step
WontblockCalls(id) == {j \in Events("wontblock")' : log'[j].type = id}

\* C39: a control-flow event with code WRITEWONTBLOCK calls, for every channel
\* in session->channels and for no other, every callbacks structure of the
\* channel that has write_wontblock once, channel after channel in the order of
\* the list; the window passed is the channel's remote_window at the moment
\* of the call (that of the list at the first call for the channel, less what
\* the calls before wrote at the later ones).  An event with another code
\* calls nothing and changes nothing in the session or in the position of
\* the callback; no event changes the packet layer (packet_state, the
\* buffers, the sequence numbers, the crypto context, the handler tables).
C39_WriteWontBlock ==
    [][/\ FlowStep("SSH_SOCKET_FLOW_WRITEWONTBLOCK") =>
            /\ \A j \in Events("wontblock")' :
                  \E i \in 1 .. Len(session.channels) : session.channels[i].id = log'[j].type
            /\ \A i \in 1 .. Len(session.channels) :
                  LET channel == session.channels[i]
                      calls == WontblockCalls(channel.id)
                      with == {x \in 1 .. Len(channel.callbacks) :
                                 channel.callbacks[x].channel_write_wontblock_function}
                  IN  /\ Cardinality(calls) = Cardinality(with)
                      /\ \A x \in with :
                            Cardinality({j \in calls :
                                           log'[j].w = W(channel.callbacks[x].id)}) = 1
                      /\ \A j \in calls :
                            /\ (\A j2 \in calls : j2 >= j) =>
                                  log'[j].n = channel.remote_window
                            /\ \A j2 \in calls :
                                  (j2 > j /\ \A j3 \in calls : ~(j < j3 /\ j3 < j2)) =>
                                     log'[j2].n = log'[j].n - log'[j].b[1]
                            /\ (\A j2 \in calls : j2 <= j) =>
                                  session'.channels[i].remote_window
                                     = log'[j].n - log'[j].b[1]
                      /\ \A i2 \in 1 .. Len(session.channels) :
                            i < i2 =>
                               \A j \in calls, j2 \in WontblockCalls(session.channels[i2].id) :
                                  j < j2
            /\ [session' EXCEPT !.channels = <<>>] = [session EXCEPT !.channels = <<>>]
       /\ \A code \in FlowCodes \ {"SSH_SOCKET_FLOW_WRITEWONTBLOCK"} :
            FlowStep(code) =>
               /\ Events("wontblock")' = {}
               /\ session' = session
               /\ Len(log') = (IF cb.pc = "idle" THEN 0 ELSE Len(log)) + 1
      ]_vars

\* after the first channel was freed, an event with WRITEWONTBLOCK arrived
\* while a handler was running: the structure of the third channel that has
\* the function was called once with its window, the second channel has no
\* structure and was not called
C39_Witness ==
    /\ cb.pc = "handler"
    /\ Len(session.channels) = 2
    /\ session.channels[1].id = 2 /\ session.channels[2].id = 3
    /\ Last.k = "wontblock" /\ Last.type = 3 /\ Last.n = 6 /\ Last.b = <<3>>
    /\ Cardinality(Events("wontblock")) = 1
    /\ session.channels[2].remote_window = 3

\* ---------------------------------------------------------------------------
\* A session with a PCAP sink attached sends and receives (SpecPcap)
\* ---------------------------------------------------------------------------

PcapCryptos ==
    {NoCrypto, Crypto(Cipher(8, 0, 3), MacLen, FALSE), Crypto(Cipher(16, 16, 5), MacLen, TRUE)}

PcapPayloads == {<<SSH2_MSG_IGNORE>>, <<SSH2_MSG_CHANNEL_DATA, 5>>, <<250>>}

InitPcap ==
    /\ session \in
         {[InPhase(TRUE, "AUTHENTICATED", "DH_STATE_FINISHED", "SUCCESS", "NONE")
             EXCEPT !.current_crypto = cr, !.pcap_ctx.attached = a] :
            cr \in PcapCryptos, a \in BOOLEAN}
    /\ cb = IdleFrame
    /\ log = <<>>
    /\ tally = NoTally

NextPcap ==
    \/ \E p \in PcapPayloads : AppSend(p, "none", 7)
    \/ \E p \in PcapPayloads : ZlibFeed(p)
    \/ \E rv \in HandlerReturns : HandlerReturn(rv, "none")

SpecPcap == InitPcap /\ [][NextPcap]_vars

\* the records the step wrote to the sink in one direction
PcapWritten(direction) ==
    LET old == session.pcap_ctx.records
        new == session'.pcap_ctx.records
    IN  SelectSeq(SubSeq(new, Len(old) + 1, Len(new)),
                  LAMBDA r : r.direction = direction)

\* C40: with a sink attached, a step that writes a packet to the socket gives
\* the sink one record tagged OUT with the bytes written, and a step that
\* receives a packet (recv_seq moves) gives it one record tagged IN with the
\* whole packet decrypted; nothing else is recorded and records stay.
C40_PcapRecords ==
    [][session.pcap_ctx.attached =>
          /\ session'.pcap_ctx.attached
          /\ Len(session'.pcap_ctx.records) >= Len(session.pcap_ctx.records)
          /\ SubSeq(session'.pcap_ctx.records, 1, Len(session.pcap_ctx.records))
                = session.pcap_ctx.records
          /\ PcapWritten("SSH_PCAP_DIR_OUT") =
                IF WriteReached
                THEN <<[direction |-> "SSH_PCAP_DIR_OUT", data |-> WriteEvent.b]>>
                ELSE <<>>
          /\ PcapWritten("SSH_PCAP_DIR_IN") =
                IF session'.recv_seq # session.recv_seq
                THEN <<[direction |-> "SSH_PCAP_DIR_IN",
                        data |-> WireClear(session, log'[1].b)]>>
                ELSE <<>>
      ]_vars

TypeOK ==
    /\ session.session_state \in SessionStates
    /\ session.packet_state \in PacketStates
    /\ cb.pc \in {"idle", "leftover", "handler"}

====
